---- MODULE Spec2Model ----
(***************************************************************************)
(* ha-daikinone: the authenticated request transport (DaikinOne.__req,     *)
(* login, __refresh_token), the thermostat cache and the optimistic-write  *)
(* engine of the entities (DaikinOneEntity and DaikinOneThermostat).       *)
(*                                                                         *)
(* The integration runs on one asyncio event loop: code between two awaits *)
(* on network I/O is atomic.  Every action below is therefore "a response  *)
(* arrives and the awaiting coroutine runs until its next await".          *)
(***************************************************************************)
EXTENDS Integers, Sequences, FiniteSets, TLC

\* ------------------------------------------------------------------ bounds
\* time (seconds) that passes between the starts of two confirmation polls
MinDelay == 5
MaxDelay == 10
\* cap of the per-call instrumentation counters
CountCap == 4
\* faulty responses (non-200, network error, token absent) the backend gives
\* while the entity runs
MaxFaults == 2
\* the same, in the runs with two overlapping writes
OverlapFaults == 1
\* python objects alive at one time
MaxObjects == 9

\* --------------------------------------------------------------- constants
\* backoff.on_predicate(..., max_time=10)
max_time == 10

\* python None / JSON null, and "key not in the payload"
Null == "None"
Missing == "missing"

\* status standing for an aiohttp ClientError (no HTTP response at all)
NetErr == 0
HttpStatuses == {200, 400, 401, 500}

AccessTokens == {"a1", "a2"}
RefreshTokens == {"r1"}

\* DaikinThermostatMode values used by the runs (OFF, HEAT)
Modes == {0, 1}
DeviceIds == {"t1"}

Callers == {"c1"}
Writers == {"w1", "w2"}
Pollers == {"p1"}
\* the config flow, which calls login() itself
Flows == {"f1"}
Tasks == Callers \cup Writers \cup Pollers \cup Flows

VARIABLES
    auth,          \* DaikinOne.__auth
    thermostats,   \* DaikinOne.__thermostats (the cache)
    remote,        \* what the cloud holds for each device
    frame,         \* per task: the __req call it is suspended in
    stats,         \* per caller: what the current logical __req call did
    result,        \* per caller: how its last __req call ended
    kind,          \* which class the entity is
    device,        \* entity._device / entity._thermostat (the snapshot)
    attr,          \* entity attributes derived from the snapshot
    updates_paused,\* entity._updates_paused
    task,          \* per entity task: where its coroutine is suspended
    fault_budget,  \* how many more faulty responses the backend may give
    heap,          \* python objects by address (where object identity matters)
    polls,         \* the poll response body decoded last
    call           \* the entity/API method invoked last and how it began

vars == <<auth, thermostats, remote, frame, stats, result, kind, device, attr,
          updates_paused, task, fault_budget, heap, polls, call>>

\* state used only by the cache-identity and set-point runs
auxVars == <<heap, polls, call>>

entityVars == <<kind, device, attr, updates_paused, task>>

\* ------------------------------------------------------------- responses
NoFrame == [rpc |-> "none", retry |-> TRUE, method |-> "GET"]

Resp(s, r, a, b) == [status |-> s, refreshToken |-> r, accessToken |-> a, body |-> b]

LoginResponses ==
    {Resp(s, Missing, Missing, Null) : s \in (HttpStatuses \ {200}) \cup {NetErr}}
    \cup {Resp(200, r, a, Null) : r \in RefreshTokens \cup {Null, Missing},
                                  a \in AccessTokens \cup {Null, Missing}}

RefreshResponses ==
    {Resp(s, Missing, Missing, Null) : s \in (HttpStatuses \ {200}) \cup {NetErr}}
    \cup {Resp(200, Missing, a, Null) : a \in AccessTokens \cup {Null, Missing}}

\* GET /deviceData answers with the devices as the cloud holds them
UrlResponses ==
    {Resp(s, Missing, Missing, Null) : s \in (HttpStatuses \ {200}) \cup {NetErr}}
    \cup {Resp(200, Missing, Missing, remote)}

ResponsesFor(f) ==
    CASE f.rpc \in {"login", "refresh_login", "login_call"} -> LoginResponses
      [] f.rpc = "refresh" -> RefreshResponses
      [] OTHER -> UrlResponses

\* ------------------------------------------------------- auth manager
AuthInit == [authenticated |-> FALSE, refresh_token |-> Null, access_token |-> Null]

\* how a call ended
NoExc == "none"
Returned(b) == [kind |-> "return", status |-> 200, body |-> b]
Raised(k, s) == [kind |-> k, status |-> s, body |-> Null]
Pending == [kind |-> "pending", status |-> 0, body |-> Null]

\* DaikinOne.login, from the response on: the new auth state, the returned
\* boolean and the exception that escapes it
login(a, resp) ==
    IF resp.status = NetErr THEN [auth |-> a, ret |-> FALSE, exc |-> NoExc]
    ELSE IF resp.status # 200 THEN [auth |-> a, ret |-> FALSE, exc |-> NoExc]
    ELSE IF resp.refreshToken = Missing \/ resp.accessToken = Missing
        THEN [auth |-> a, ret |-> FALSE, exc |-> "KeyError"]
    ELSE IF resp.refreshToken = Null THEN [auth |-> a, ret |-> FALSE, exc |-> NoExc]
    ELSE IF resp.accessToken = Null THEN [auth |-> a, ret |-> FALSE, exc |-> NoExc]
    ELSE [auth |-> [authenticated |-> TRUE,
                    refresh_token |-> resp.refreshToken,
                    access_token |-> resp.accessToken],
          ret |-> TRUE, exc |-> NoExc]

\* a refresh that also stores the response's refresh token
refresh_token_rotate(a, resp) ==
    [auth |-> [authenticated |-> TRUE, refresh_token |-> resp.refreshToken,
               access_token |-> resp.accessToken],
     ret |-> TRUE, exc |-> NoExc]

\* DaikinOne.__refresh_token, from the refresh endpoint's response on
refresh_token(a, resp) ==
    IF resp.status = NetErr THEN [auth |-> a, ret |-> FALSE, exc |-> "ClientError"]
    ELSE IF resp.status # 200
        THEN [auth |-> [a EXCEPT !.authenticated = FALSE], ret |-> FALSE, exc |-> NoExc]
    ELSE IF resp.accessToken = Missing THEN [auth |-> a, ret |-> FALSE, exc |-> "KeyError"]
    ELSE IF resp.accessToken = Null
        THEN [auth |-> [a EXCEPT !.authenticated = FALSE], ret |-> FALSE, exc |-> NoExc]
    ELSE [auth |-> [a EXCEPT !.access_token = resp.accessToken, !.authenticated = TRUE],
          ret |-> TRUE, exc |-> NoExc]

\* ------------------------------------------------------- request transport
\* a __req that sends the request whatever the auth state
req_enter_nologin(a, method, retry) ==
    [rpc |-> "url", retry |-> retry, method |-> method]

\* DaikinOne.__req up to its first await: a login when not authenticated,
\* else the call to the url
req_enter(a, method, retry) ==
    [rpc |-> IF a.authenticated # TRUE THEN "login" ELSE "url",
     retry |-> retry, method |-> method]

\* a retry that may itself be retried
req_retry_again(a, f) == req_enter(a, f.method, TRUE)

\* the retry of __req: __req(url, method, body, retry=False)
req_retry(a, f) == req_enter(a, f.method, FALSE)

\* a transport that takes every failure for an expired token
retry_on_any(status, retry) == status # 200 /\ retry

\* the response that makes __req refresh the token and retry
retry_on(status, retry) == status = 401 /\ retry

\* DaikinOne.__req (with the login and __refresh_token it awaits) from one
\* response to the next await: the frame it is then suspended in, the auth
\* state, and how the call ended if it did
req_step(f, a, resp) ==
    CASE f.rpc = "login" ->
            LET l == login(a, resp) IN
            IF l.exc # NoExc
            THEN [frame |-> NoFrame, auth |-> l.auth, out |-> Raised(l.exc, 0)]
            ELSE [frame |-> [f EXCEPT !.rpc = "url"], auth |-> l.auth, out |-> Pending]
      [] f.rpc = "url" ->
            IF resp.status = NetErr
            THEN [frame |-> NoFrame, auth |-> a, out |-> Raised("ClientError", 0)]
            ELSE IF resp.status = 200
            THEN [frame |-> NoFrame, auth |-> a, out |-> Returned(resp.body)]
            ELSE IF retry_on(resp.status, f.retry)
            THEN [frame |-> [f EXCEPT !.rpc = IF a.authenticated # TRUE
                                               THEN "refresh_login" ELSE "refresh"],
                  auth |-> a, out |-> Pending]
            ELSE [frame |-> NoFrame, auth |-> a,
                  out |-> Raised("DaikinServiceException", resp.status)]
      [] f.rpc = "refresh_login" ->
            LET l == login(a, resp) IN
            IF l.exc # NoExc
            THEN [frame |-> NoFrame, auth |-> l.auth, out |-> Raised(l.exc, 0)]
            ELSE [frame |-> [f EXCEPT !.rpc = "refresh"], auth |-> l.auth, out |-> Pending]
      [] f.rpc = "refresh" ->
            LET r == refresh_token(a, resp) IN
            IF r.exc # NoExc
            THEN [frame |-> NoFrame, auth |-> r.auth, out |-> Raised(r.exc, 0)]
            ELSE [frame |-> req_retry(r.auth, f), auth |-> r.auth, out |-> Pending]

\* ------------------------------------------------------- instrumentation
NoStats == [url |-> 0, login |-> 0, refresh |-> 0, all401 |-> TRUE, last |-> 0,
            got |-> Missing]

Bump(n) == IF n < CountCap THEN n + 1 ELSE n

\* the request that frame f is waiting on has been sent
Sent(s, f) ==
    CASE f.rpc = "url" -> [s EXCEPT !.url = Bump(@)]
      [] f.rpc \in {"login", "refresh_login"} -> [s EXCEPT !.login = Bump(@)]
      [] f.rpc = "refresh" -> [s EXCEPT !.refresh = Bump(@)]
      [] OTHER -> s

Received(s, resp) ==
    [s EXCEPT !.all401 = @ /\ resp.status = 401, !.last = resp.status,
              !.got = resp.accessToken]

\* ------------------------------------------------------------- the cache
\* DaikinOne.__map_thermostat
map_thermostat(payload) == [id |-> payload.id, mode |-> payload.mode]

\* DaikinOne.__refresh_thermostats, from the response body on
refresh_thermostats(body) ==
    [i \in DOMAIN body |-> map_thermostat(body[i])]

\* DaikinOne.get_thermostat: a deep copy of the cache entry
get_thermostat(cache, id) == cache[id]

EmptyCache == [i \in {} |-> Null]

\* -------------------------------------------------------------- backend
Unlimited == 0 - 1

\* a response that is what the API documents for the endpoint
Good(f, resp) ==
    /\ resp.status = 200
    /\ f.rpc \in {"login", "refresh_login", "login_call"} =>
            resp.refreshToken \in RefreshTokens /\ resp.accessToken \in AccessTokens
    /\ f.rpc = "refresh" => resp.accessToken \in AccessTokens

\* the backend answers the request task t waits on with resp
Respond(t, resp) ==
    /\ resp \in ResponsesFor(frame[t])
    /\ Good(frame[t], resp) \/ fault_budget # 0
    /\ fault_budget' = IF Good(frame[t], resp) \/ fault_budget = Unlimited
                       THEN fault_budget ELSE fault_budget - 1

\* the cloud changes a device's mode (a write takes effect, somebody turns
\* the dial)
RemoteChange(d, m) ==
    /\ remote[d].mode # m
    /\ remote' = [remote EXCEPT ![d].mode = m]
    /\ UNCHANGED <<auth, thermostats, frame, stats, result, fault_budget>>
    /\ UNCHANGED entityVars
    /\ UNCHANGED auxVars

\* --------------------------------------------------------------- callers
\* a direct use of the API object: update() (GET) or set_thermostat_mode (PUT)
Call(c, method) ==
    /\ c \in Callers
    /\ frame[c].rpc = "none"
    /\ LET f == req_enter(auth, method, TRUE) IN
        /\ frame' = [frame EXCEPT ![c] = f]
        /\ stats' = [stats EXCEPT ![c] = Sent(NoStats, f)]
    /\ result' = [result EXCEPT ![c] = Pending]
    /\ UNCHANGED <<auth, thermostats, remote, fault_budget>>
    /\ UNCHANGED entityVars
    /\ UNCHANGED auxVars

\* a response arrives for a caller's __req
CallStep(c) ==
    /\ c \in Callers
    /\ frame[c].rpc # "none"
    /\ \E resp \in ResponsesFor(frame[c]) :
        LET r == req_step(frame[c], auth, resp) IN
        /\ Respond(c, resp)
        /\ frame' = [frame EXCEPT ![c] = r.frame]
        /\ auth' = r.auth
        /\ stats' = [stats EXCEPT ![c] = Sent(Received(@, resp), r.frame)]
        /\ result' = [result EXCEPT ![c] = r.out]
        /\ thermostats' = IF r.out.kind = "return" /\ frame[c].method = "GET"
                          THEN refresh_thermostats(r.out.body) ELSE thermostats
    /\ UNCHANGED remote
    /\ UNCHANGED entityVars
    /\ UNCHANGED auxVars

\* no object allocated, no method invoked
NoHeap == <<>>
NoCall == [op |-> "none"]
\* no poll response decoded yet
NoPoll == [any |-> FALSE, body |-> EmptyCache]

\* the config flow calls login() (config_flow.py: "ok = await daikin.login()");
\* the auth state is the class attribute every DaikinOne object shares
LoginCall(f) ==
    /\ f \in Flows
    /\ frame[f].rpc = "none"
    /\ frame' = [frame EXCEPT ![f] = [NoFrame EXCEPT !.rpc = "login_call", !.method = "POST"]]
    /\ call' = [op |-> "login", state |-> "awaiting"]
    /\ UNCHANGED <<auth, thermostats, remote, stats, result, fault_budget, heap, polls>>
    /\ UNCHANGED entityVars

\* the login endpoint answers the config flow's login()
LoginStep(f) ==
    /\ f \in Flows
    /\ frame[f].rpc = "login_call"
    /\ \E resp \in ResponsesFor(frame[f]) :
        LET l == login(auth, resp) IN
        /\ Respond(f, resp)
        /\ auth' = l.auth
        /\ call' = [op |-> "login", state |-> "ended", ret |-> l.ret, exc |-> l.exc,
                    status |-> resp.status, refreshToken |-> resp.refreshToken,
                    accessToken |-> resp.accessToken]
    /\ frame' = [frame EXCEPT ![f] = NoFrame]
    /\ UNCHANGED <<thermostats, remote, stats, result, heap, polls>>
    /\ UNCHANGED entityVars

NoTask == [phase |-> "idle", target |-> 0, elapsed |-> 0, log |-> <<>>]

RemoteStates == [DeviceIds -> {[id |-> "t1", mode |-> m] : m \in Modes}]

InitReq ==
    /\ auth = AuthInit
    /\ thermostats = EmptyCache
    /\ remote \in RemoteStates
    /\ frame = [t \in Tasks |-> NoFrame]
    /\ stats = [t \in Callers |-> NoStats]
    /\ result = [t \in Callers |-> Pending]
    /\ kind = "none"
    /\ device = Null
    /\ attr = Null
    /\ updates_paused = FALSE
    /\ task = [t \in Writers \cup Pollers |-> NoTask]
    /\ fault_budget = Unlimited
    /\ heap = NoHeap /\ polls = NoPoll /\ call = NoCall

NextReq ==
    \/ \E c \in Callers, m \in {"GET", "PUT"} : Call(c, m)
    \/ \E c \in Callers : CallStep(c)
    \/ \E f \in Flows : LoginCall(f) \/ LoginStep(f)
    \/ \E d \in DeviceIds, m \in Modes : RemoteChange(d, m)

SpecReq == InitReq /\ [][NextReq]_vars

\* the same, with a backend that answers every request it was sent (the event
\* loop resumes the awaiting coroutine when the response is there)
SpecReqFair == SpecReq /\ WF_vars(\E c \in Callers : CallStep(c))

\* ---------------------------------------------------------------- entity
TheId == "t1"

\* update_entity_attributes: the attribute the host framework shows
\* (climate: hvac_mode from the thermostat mode, AUX_HEAT shown as heat)
update_entity_attributes(dev) ==
    CASE dev.mode = 3 -> "heat_cool"
      [] dev.mode = 1 -> "heat"
      [] dev.mode = 2 -> "cool"
      [] dev.mode = 4 -> "heat"
      [] OTHER -> "off"

\* an optimistic update that changes nothing
optimistic_update_none(dev, target) == dev

\* the caller's optimistic_update / update closure: t.mode = target_mode
optimistic_update(dev, target) == [dev EXCEPT !.mode = target]

\* the caller's check closure: t.mode == target_mode
check(dev, target) == dev.mode = target

\* entity.py sets self._updates_paused before awaiting the operation; the
\* climate entity sends its write before update_state_optimistically
paused_at_start(k, p) == IF k = "entity" THEN TRUE ELSE p

\* "pause entity updates" once the write has returned: entity.py did it at
\* the start; climate.py assigns a local variable named _updates_paused
paused_at_apply(k, p) == p

\* a resume that leaves the flag as it is
paused_at_resume_keep(k, p) == p

\* "resume entity updates": entity.py clears self._updates_paused, climate.py
\* assigns the local variable
paused_at_resume(k, p) == IF k = "entity" THEN FALSE ELSE p

\* a loop that allows one more try at the deadline
giveup_late(elapsed) == elapsed > max_time

\* backoff.on_predicate: no further try once max_time has elapsed
giveup(elapsed) == elapsed >= max_time

\* how the awaited write request ended, as the log records it
Outcome(out) == IF out.kind = "return" THEN "write_ok" ELSE "write_failed"

\* a write whose exception is swallowed
write_succeeded_always(out) == out.kind # "pending"

\* "await operation()" / "await self._data.daikin.set_thermostat_mode(...)":
\* the code after it runs only when the request returned
write_succeeded(out) == out.kind = "return"

Delays == {MinDelay, MaxDelay}

\* a write starts: DaikinOneEntity.update_state_optimistically up to
\* "await operation()", DaikinOneThermostat.set_thermostat_mode up to its
\* await of daikin.set_thermostat_mode
StartWrite(w, v) ==
    /\ w \in Writers
    /\ task[w].phase = "idle"
    /\ w = "w2" => task["w1"].phase # "idle"
    /\ updates_paused' = paused_at_start(kind, updates_paused)
    /\ frame' = [frame EXCEPT ![w] = req_enter(auth, "PUT", TRUE)]
    /\ task' = [task EXCEPT ![w].phase = "op", ![w].target = v]
    /\ UNCHANGED <<auth, thermostats, remote, stats, result, fault_budget,
                   kind, device, attr>>
    /\ UNCHANGED auxVars

\* the confirmation loop has ended (success or give-up): resume, then the
\* full entity update, which returns at once when the flag is set
EndWait(w, how) ==
    LET p == paused_at_resume(kind, updates_paused) IN
    /\ updates_paused' = p
    /\ IF p
       THEN /\ frame' = [frame EXCEPT ![w] = NoFrame]
            /\ task' = [task EXCEPT ![w].phase = "done", ![w].elapsed = 0,
                            ![w].log = @ \o <<how, "resume", "skipped", "publish">>]
       ELSE /\ frame' = [frame EXCEPT ![w] = req_enter(auth', "GET", TRUE)]
            /\ task' = [task EXCEPT ![w].phase = "final", ![w].elapsed = 0,
                            ![w].log = @ \o <<how, "resume", "refresh">>]

\* a response arrives while the write request is awaited
WriteStep(w) ==
    /\ w \in Writers
    /\ task[w].phase = "op"
    /\ \E resp \in ResponsesFor(frame[w]) :
        LET r == req_step(frame[w], auth, resp) IN
        /\ Respond(w, resp)
        /\ auth' = r.auth
        /\ CASE r.out.kind = "pending" ->
                /\ frame' = [frame EXCEPT ![w] = r.frame]
                /\ UNCHANGED <<device, attr, updates_paused, task>>
             [] write_succeeded(r.out) ->
                \* optimistic update, publish, first confirmation poll
                /\ updates_paused' = paused_at_apply(kind, updates_paused)
                /\ device' = optimistic_update(device, task[w].target)
                /\ attr' = update_entity_attributes(device')
                /\ frame' = [frame EXCEPT ![w] = req_enter(auth', "GET", TRUE)]
                /\ task' = [task EXCEPT ![w].phase = "wait", ![w].elapsed = 0,
                                ![w].log = @ \o <<Outcome(r.out), "mutate", "publish", "poll">>]
             [] OTHER ->
                /\ frame' = [frame EXCEPT ![w] = NoFrame]
                /\ task' = [task EXCEPT ![w].phase = "failed",
                                ![w].log = @ \o <<Outcome(r.out)>>]
                /\ UNCHANGED <<device, attr, updates_paused>>
    /\ UNCHANGED <<thermostats, remote, stats, result, kind>>
    /\ UNCHANGED auxVars

\* a response arrives while a confirmation poll (_wait_for_updated_value) is
\* awaited
ConfirmStep(w) ==
    /\ w \in Writers
    /\ task[w].phase = "wait"
    /\ \E resp \in ResponsesFor(frame[w]) :
        LET r == req_step(frame[w], auth, resp) IN
        /\ Respond(w, resp)
        /\ auth' = r.auth
        /\ CASE r.out.kind = "pending" ->
                /\ frame' = [frame EXCEPT ![w] = r.frame]
                /\ UNCHANGED <<thermostats, updates_paused, task>>
             [] r.out.kind = "return" ->
                /\ thermostats' = refresh_thermostats(r.out.body)
                /\ IF check(get_thermostat(thermostats', TheId), task[w].target)
                   THEN EndWait(w, "hit")
                   ELSE IF giveup(task[w].elapsed)
                   THEN EndWait(w, "giveup")
                   ELSE /\ frame' = [frame EXCEPT ![w] = NoFrame]
                        /\ task' = [task EXCEPT ![w].phase = "sleep",
                                        ![w].log = @ \o <<"miss">>]
                        /\ UNCHANGED updates_paused
             [] OTHER ->
                /\ frame' = [frame EXCEPT ![w] = NoFrame]
                /\ task' = [task EXCEPT ![w].phase = "failed", ![w].elapsed = 0,
                                ![w].log = @ \o <<"poll_failed">>]
                /\ UNCHANGED <<thermostats, updates_paused>>
    /\ UNCHANGED <<remote, stats, result, kind, device, attr>>
    /\ UNCHANGED auxVars

\* the backoff sleep is over: the next try of _wait_for_updated_value starts,
\* d seconds after the previous one started
Wake(w, d) ==
    /\ w \in Writers
    /\ task[w].phase = "sleep"
    /\ frame' = [frame EXCEPT ![w] = req_enter(auth, "GET", TRUE)]
    /\ task' = [task EXCEPT ![w].phase = "wait", ![w].elapsed = @ + d,
                    ![w].log = @ \o <<"poll">>]
    /\ UNCHANGED <<auth, thermostats, remote, stats, result, fault_budget,
                   kind, device, attr, updates_paused>>
    /\ UNCHANGED auxVars

\* a response arrives while the final async_update(no_throttle=True) is
\* awaited
FinalStep(w) ==
    /\ w \in Writers
    /\ task[w].phase = "final"
    /\ \E resp \in ResponsesFor(frame[w]) :
        LET r == req_step(frame[w], auth, resp) IN
        /\ Respond(w, resp)
        /\ auth' = r.auth
        /\ CASE r.out.kind = "pending" ->
                /\ frame' = [frame EXCEPT ![w] = r.frame]
                /\ UNCHANGED <<thermostats, device, attr, task>>
             [] r.out.kind = "return" ->
                /\ thermostats' = refresh_thermostats(r.out.body)
                /\ device' = get_thermostat(thermostats', TheId)
                /\ attr' = update_entity_attributes(device')
                /\ frame' = [frame EXCEPT ![w] = NoFrame]
                /\ task' = [task EXCEPT ![w].phase = "done",
                                ![w].log = @ \o <<"replace", "publish">>]
             [] OTHER ->
                /\ frame' = [frame EXCEPT ![w] = NoFrame]
                /\ task' = [task EXCEPT ![w].phase = "failed",
                                ![w].log = @ \o <<"refresh_failed">>]
                /\ UNCHANGED <<thermostats, device, attr>>
    /\ UNCHANGED <<remote, stats, result, kind, updates_paused>>
    /\ UNCHANGED auxVars

\* the host framework calls async_update() while updates are paused
PeriodicSkipped(p) ==
    /\ p \in Pollers
    /\ task[p].phase = "idle"
    /\ updates_paused
    /\ UNCHANGED task
    /\ UNCHANGED <<auth, thermostats, remote, frame, stats, result, fault_budget,
                   kind, device, attr, updates_paused>>
    /\ UNCHANGED auxVars

\* async_update() within MIN_TIME_BETWEEN_UPDATES of the last fetch: Throttle
\* returns at once and the entity re-reads the cache
PeriodicThrottled(p) ==
    /\ p \in Pollers
    /\ task[p].phase = "idle"
    /\ ~updates_paused
    /\ device' = get_thermostat(thermostats, TheId)
    /\ attr' = update_entity_attributes(device')
    /\ UNCHANGED task
    /\ UNCHANGED <<auth, thermostats, remote, frame, stats, result, fault_budget,
                   kind, updates_paused>>
    /\ UNCHANGED auxVars

\* async_update() that fetches
PeriodicFetch(p) ==
    /\ p \in Pollers
    /\ task[p].phase = "idle"
    /\ ~updates_paused
    /\ frame' = [frame EXCEPT ![p] = req_enter(auth, "GET", TRUE)]
    /\ task' = [task EXCEPT ![p].phase = "poll"]
    /\ UNCHANGED <<auth, thermostats, remote, stats, result, fault_budget,
                   kind, device, attr, updates_paused>>
    /\ UNCHANGED auxVars

\* a response arrives while the periodic async_update is awaited
PollStep(p) ==
    /\ p \in Pollers
    /\ task[p].phase = "poll"
    /\ \E resp \in ResponsesFor(frame[p]) :
        LET r == req_step(frame[p], auth, resp) IN
        /\ Respond(p, resp)
        /\ auth' = r.auth
        /\ CASE r.out.kind = "pending" ->
                /\ frame' = [frame EXCEPT ![p] = r.frame]
                /\ UNCHANGED <<thermostats, device, attr, task>>
             [] r.out.kind = "return" ->
                /\ thermostats' = refresh_thermostats(r.out.body)
                /\ device' = get_thermostat(thermostats', TheId)
                /\ attr' = update_entity_attributes(device')
                /\ frame' = [frame EXCEPT ![p] = NoFrame]
                /\ task' = [task EXCEPT ![p].phase = "idle"]
             [] OTHER ->
                /\ frame' = [frame EXCEPT ![p] = NoFrame]
                /\ task' = [task EXCEPT ![p].phase = "idle"]
                /\ UNCHANGED <<thermostats, device, attr>>
    /\ UNCHANGED <<remote, stats, result, kind, updates_paused>>
    /\ UNCHANGED auxVars

\* the entity exists: async_setup_entry has logged in, polled once and built
\* the entity from the cache; the backend may misbehave budget times
Setup(budget) ==
    /\ auth = [authenticated |-> TRUE, refresh_token |-> "r1", access_token |-> "a1"]
    /\ remote \in RemoteStates
    /\ thermostats = refresh_thermostats(remote)
    /\ frame = [t \in Tasks |-> NoFrame]
    /\ stats = [t \in Callers |-> NoStats]
    /\ result = [t \in Callers |-> Pending]
    /\ kind \in {"entity", "climate"}
    /\ device = get_thermostat(thermostats, TheId)
    /\ attr = update_entity_attributes(device)
    /\ updates_paused = FALSE
    /\ task = [t \in Writers \cup Pollers |-> NoTask]
    /\ fault_budget = budget
    /\ heap = NoHeap /\ polls = NoPoll /\ call = NoCall

Init == Setup(MaxFaults)

\* the periodic update of the entity
Periodic ==
    \E p \in Pollers : PeriodicSkipped(p) \/ PeriodicThrottled(p)
                          \/ PeriodicFetch(p) \/ PollStep(p)

\* one optimistic write on the entity, the periodic update and the remote
Next ==
    \/ \E v \in Modes : StartWrite("w1", v)
    \/ WriteStep("w1") \/ ConfirmStep("w1") \/ FinalStep("w1")
    \/ \E d \in Delays : Wake("w1", d)
    \/ Periodic
    \/ \E d \in DeviceIds, m \in Modes : RemoteChange(d, m)

Spec == Init /\ [][Next]_vars

InitOverlap == Setup(OverlapFaults)

\* a second optimistic write on the same entity starts while the first is
\* under way or over
NextOverlap ==
    \/ \E w \in Writers, v \in Modes : StartWrite(w, v)
    \/ \E w \in Writers : WriteStep(w) \/ ConfirmStep(w) \/ FinalStep(w)
    \/ \E w \in Writers, d \in Delays : Wake(w, d)
    \/ Periodic
    \/ \E d \in DeviceIds, m \in Modes : RemoteChange(d, m)

SpecOverlap == InitOverlap /\ [][NextOverlap]_vars

\* ------------------------------------------------------- cache identity
\* The cache and the objects handed to readers as python objects: `thermostats`
\* is the address of the dict DaikinOne.__thermostats is bound to, `device` the
\* address of the object a reader (an entity) holds, 0 when it holds none.
Addr == 1..MaxObjects
NoRef == 0
CacheDevices == {"t1", "t2"}
DevIndex == [i \in CacheDevices |-> IF i = "t1" THEN 1 ELSE 2]
UpdateCallers == {"p1", "w1"}

NoValue == [id |-> Null, mode |-> 0]
Free == [type |-> "free", entries |-> EmptyCache, val |-> NoValue]
Dict(entries) == [type |-> "dict", entries |-> entries, val |-> NoValue]
Object(v) == [type |-> "object", entries |-> EmptyCache, val |-> v]

\* what the cloud can hold: any of the devices, each in any mode
CacheRemoteStates ==
    UNION {[D -> Modes] : D \in (SUBSET CacheDevices) \ {{}}}

Body(r) == [i \in DOMAIN r |-> [id |-> i, mode |-> r[i]]]

FreeAddrs(h) == {a \in Addr : h[a].type = "free"}

\* the k-th free address, lowest first
NthFree(h, k) ==
    CHOOSE a \in FreeAddrs(h) : Cardinality({b \in FreeAddrs(h) : b < a}) = k - 1

Rank(i, D) == Cardinality({j \in D : DevIndex[j] < DevIndex[i]})

\* a new dict object holding new objects with the values of m
new_dict(h, m) ==
    LET D == DOMAIN m
        d == NthFree(h, 1)
        at == [i \in D |-> NthFree(h, 2 + Rank(i, D))]
    IN [heap |-> [a \in Addr |->
                    IF a = d THEN Dict(at)
                    ELSE IF \E i \in D : a = at[i]
                    THEN Object(m[CHOOSE i \in D : a = at[i]])
                    ELSE h[a]],
        ref |-> d]

\* the python value of the object at address r
Value(h, r) ==
    IF h[r].type = "dict"
    THEN [i \in DOMAIN h[r].entries |-> h[h[r].entries[i]].val]
    ELSE h[r].val

\* returning the live object instead of a copy
deepcopy_alias(h, r) == [heap |-> h, ref |-> r]

\* copy.deepcopy: new objects all the way down
deepcopy(h, r) ==
    IF h[r].type = "dict"
    THEN new_dict(h, Value(h, r))
    ELSE LET a == NthFree(h, 1) IN [heap |-> [h EXCEPT ![a] = h[r]], ref |-> a]

\* filling the dict the cache is bound to instead of binding a new one
rebind_in_place(h, old, m) ==
    LET n == new_dict(h, m) IN
    [heap |-> [n.heap EXCEPT ![old].entries =
                    [i \in DOMAIN @ \cup DOMAIN m |->
                        IF i \in DOMAIN m THEN n.heap[n.ref].entries[i] ELSE @[i]]],
     ref |-> old]

\* self.__thermostats = {device.id: ... for device in devices}: the dict is
\* built in full, then the name is bound to it
rebind(h, old, m) == new_dict(h, m)

\* the entries of the dict at r, in the order of the device index
EntrySeq(h, r) ==
    IF r = NoRef \/ h[r].type # "dict" THEN <<>>
    ELSE LET e == h[r].entries IN
         (IF "t1" \in DOMAIN e THEN <<e["t1"]>> ELSE <<>>)
         \o (IF "t2" \in DOMAIN e THEN <<e["t2"]>> ELSE <<>>)

\* objects no name refers to any more are gone (reference counting); the
\* addresses of the others are an artefact and are renumbered in the order
\* cache, its entries, the reader's object, its entries
Compact(h, c, d) ==
    LET seq == <<c>> \o EntrySeq(h, c)
               \o (IF d = NoRef THEN <<>> ELSE <<d>> \o EntrySeq(h, d))
        keep == {k \in 1..Len(seq) : \A j \in 1..(k - 1) : seq[j] # seq[k]}
        to == [a \in {seq[k] : k \in keep} |->
                Cardinality({j \in keep : j <= CHOOSE k \in keep : seq[k] = a})]
        from == [n \in 1..Cardinality(keep) |-> CHOOSE a \in DOMAIN to : to[a] = n]
        moved(o) == [o EXCEPT !.entries = [i \in DOMAIN @ |-> to[@[i]]]]
    IN [heap |-> [n \in Addr |-> IF n \in DOMAIN from THEN moved(h[from[n]]) ELSE Free],
        cache |-> to[c],
        held |-> IF d = NoRef THEN NoRef ELSE to[d]]

cacheUnused == <<stats, result, kind, attr, updates_paused, task>>

\* the cloud's device data changes: a mode, a device added or removed
CloudSet(r) ==
    /\ r \in CacheRemoteStates
    /\ remote # Body(r)
    /\ remote' = Body(r)
    /\ UNCHANGED <<auth, thermostats, frame, fault_budget, device, heap, polls, call>>
    /\ UNCHANGED cacheUnused

\* DaikinOne.update() is called: __refresh_thermostats up to its await
UpdateStart(t) ==
    /\ t \in UpdateCallers
    /\ frame[t].rpc = "none"
    /\ frame' = [frame EXCEPT ![t] = req_enter(auth, "GET", TRUE)]
    /\ UNCHANGED <<auth, thermostats, remote, fault_budget, device, heap, polls, call>>
    /\ UNCHANGED cacheUnused

\* a response arrives for an update(): when __req returns the body is decoded
\* and the cache is bound to the new dict before the next await
UpdateStep(t) ==
    /\ t \in UpdateCallers
    /\ frame[t].rpc # "none"
    /\ \E resp \in ResponsesFor(frame[t]) :
        LET r == req_step(frame[t], auth, resp) IN
        /\ Respond(t, resp)
        /\ auth' = r.auth
        /\ frame' = [frame EXCEPT ![t] = r.frame]
        /\ IF r.out.kind = "return"
           THEN LET n == rebind(heap, thermostats, refresh_thermostats(r.out.body))
                    k == Compact(n.heap, n.ref, device)
                IN /\ thermostats' = k.cache
                   /\ device' = k.held
                   /\ heap' = k.heap
                   /\ polls' = [any |-> TRUE, body |-> r.out.body]
           ELSE UNCHANGED <<thermostats, device, heap, polls>>
    /\ UNCHANGED <<remote, call>>
    /\ UNCHANGED cacheUnused

\* the reader's call op leaves it with the object at address r of heap h
Keep(h, r, op) ==
    LET k == Compact(h, thermostats, r) IN
    /\ call' = [op |-> op]
    /\ thermostats' = k.cache
    /\ device' = k.held
    /\ heap' = k.heap
    /\ UNCHANGED <<auth, remote, frame, fault_budget, polls>>
    /\ UNCHANGED cacheUnused

\* a reader calls get_thermostat(id) and keeps what it returns
GetThermostat(id) ==
    /\ id \in DOMAIN heap[thermostats].entries
    /\ LET c == deepcopy(heap, heap[thermostats].entries[id]) IN
        Keep(c.heap, c.ref, "get_thermostat")

\* a reader calls get_thermostats() and keeps what it returns
GetThermostats ==
    LET c == deepcopy(heap, thermostats) IN Keep(c.heap, c.ref, "get_thermostats")

\* the thermostat objects the reader can reach from what it holds
Held ==
    IF device = NoRef THEN {}
    ELSE IF heap[device].type = "dict"
    THEN {heap[device].entries[i] : i \in DOMAIN heap[device].entries}
    ELSE {device}

\* the reader mutates a thermostat it got (the optimistic update of an entity)
MutateObject(a, m) ==
    /\ a \in Held
    /\ heap[a].val.mode # m
    /\ Keep([heap EXCEPT ![a].val = optimistic_update(@, m)], device, "mutate")

\* the reader deletes an entry of the dict it got
MutateDict(id) ==
    /\ device # NoRef
    /\ heap[device].type = "dict"
    /\ id \in DOMAIN heap[device].entries
    /\ Keep([heap EXCEPT ![device].entries = [i \in DOMAIN @ \ {id} |-> @[i]]],
            device, "mutate")

\* the API object before its first poll: the class-level empty dict; the
\* backend answers as documented in these runs
InitCache ==
    /\ auth = AuthInit
    /\ remote \in {Body(r) : r \in CacheRemoteStates}
    /\ heap = [a \in Addr |-> IF a = 1 THEN Dict(EmptyCache) ELSE Free]
    /\ thermostats = 1
    /\ device = NoRef
    /\ polls = NoPoll
    /\ frame = [t \in Tasks |-> NoFrame]
    /\ stats = [t \in Callers |-> NoStats]
    /\ result = [t \in Callers |-> Pending]
    /\ kind = "none"
    /\ attr = Null
    /\ updates_paused = FALSE
    /\ task = [t \in Writers \cup Pollers |-> NoTask]
    /\ fault_budget = 0
    /\ call = NoCall

NextCache ==
    \/ \E r \in CacheRemoteStates : CloudSet(r)
    \/ \E t \in UpdateCallers : UpdateStart(t) \/ UpdateStep(t)
    \/ \E id \in CacheDevices : GetThermostat(id)
    \/ GetThermostats
    \/ \E a \in Addr, m \in Modes : MutateObject(a, m)
    \/ \E id \in CacheDevices : MutateDict(id)

SpecCache == InitCache /\ [][NextCache]_vars

\* ------------------------------------------------------ set-point writes
\* DaikinThermostatMode: OFF, HEAT, COOL, AUTO, AUX_HEAT
AllModes == {0, 1, 2, 3, 4}

\* an argument that was not passed / python None, among numbers
NoTemp == 0 - 10000

\* the kwargs of async_set_temperature, in hundredths of a degree Celsius
SetTempInputs == {NoTemp, 0, 2004, 2150}

\* Temperature.from_celsius: round(temp_c, 1), here from hundredths to tenths
\* (the inputs are no ties)
from_celsius(c) == (c + 5) \div 10

\* Temperature values the API is called with directly, in tenths
SetPoints == {NoTemp, from_celsius(2004), from_celsius(2150)}

\* truth value of an optional float: None and 0.0 are falsy
Truthy(x) == x # NoTemp /\ x # 0

\* a single temperature taken for a heat set point in every mode
single_set_point_heat(mode, v) ==
    [exc |-> NoExc, heat |-> v, cool |-> NoTemp]

\* "match self._thermostat.mode": which set point a single temperature is
single_set_point(mode, v) ==
    CASE mode \in {1, 4} -> [exc |-> NoExc, heat |-> v, cool |-> NoTemp]
      [] mode = 2 -> [exc |-> NoExc, heat |-> NoTemp, cool |-> v]
      [] OTHER -> [exc |-> "ValueError", heat |-> NoTemp, cool |-> NoTemp]

\* an entity that passes the schedule flag with every write
set_temperature_overriding(dev, temperature, low, high) ==
    IF Truthy(low) \/ Truthy(high)
    THEN [exc |-> NoExc,
          heat |-> IF low # NoTemp THEN from_celsius(low) ELSE NoTemp,
          cool |-> IF high # NoTemp THEN from_celsius(high) ELSE NoTemp,
          override |-> dev.schedule_enabled]
    ELSE IF Truthy(temperature)
    THEN LET p == single_set_point(dev.mode, from_celsius(temperature)) IN
         [exc |-> p.exc, heat |-> p.heat, cool |-> p.cool,
          override |-> dev.schedule_enabled]
    ELSE [exc |-> "ValueError", heat |-> NoTemp, cool |-> NoTemp, override |-> FALSE]

\* async_set_temperature up to its call of set_thermostat_home_set_points:
\* the exception it raises or the arguments of that call
set_temperature(dev, temperature, low, high) ==
    IF Truthy(low) \/ Truthy(high)
    THEN [exc |-> NoExc,
          heat |-> IF low # NoTemp THEN from_celsius(low) ELSE NoTemp,
          cool |-> IF high # NoTemp THEN from_celsius(high) ELSE NoTemp,
          override |-> dev.schedule_enabled]
    ELSE IF Truthy(temperature)
    THEN LET p == single_set_point(dev.mode, from_celsius(temperature)) IN
         [exc |-> p.exc, heat |-> p.heat, cool |-> p.cool, override |-> FALSE]
    ELSE [exc |-> "ValueError", heat |-> NoTemp, cool |-> NoTemp, override |-> FALSE]

NoBody == [hspHome |-> NoTemp, cspHome |-> NoTemp, schedOverride |-> 0]

\* a set-point write that sends whatever it is given
set_points_unchecked(heat, cool, override_schedule) ==
    [exc |-> NoExc,
     body |-> [hspHome |-> heat, cspHome |-> cool,
               schedOverride |-> IF override_schedule THEN 1 ELSE 0]]

\* DaikinOne.set_thermostat_home_set_points up to its await of __req: the
\* exception it raises or the body of the PUT (a Temperature object is truthy
\* whatever its value; NoTemp in the body stands for "key not in the payload")
set_thermostat_home_set_points(heat, cool, override_schedule) ==
    IF heat = NoTemp /\ cool = NoTemp
    THEN [exc |-> "ValueError", body |-> NoBody]
    ELSE [exc |-> NoExc,
          body |-> [hspHome |-> heat, cspHome |-> cool,
                    schedOverride |-> IF override_schedule THEN 1 ELSE 0]]

\* the caller's update closure: the supplied set points replace the snapshot's
set_point_update(dev, heat, cool) ==
    [dev EXCEPT !.set_point_heat = IF heat # NoTemp THEN heat ELSE @,
                !.set_point_cool = IF cool # NoTemp THEN cool ELSE @]

\* the climate entity's async_set_temperature is called: up to its first await
\* on the network, or to the exception it raises before (a run uses either
\* the entity or the API object directly)
AsyncSetTemperature(w, temperature, low, high) ==
    LET p == set_temperature(device, temperature, low, high)
        a == set_thermostat_home_set_points(p.heat, p.cool, p.override)
        failed == p.exc # NoExc \/ a.exc # NoExc
    IN
    /\ w \in Writers
    /\ task[w].phase = "idle"
    /\ call.op = "none"
    /\ call' = [op |-> "async_set_temperature",
                temperature |-> temperature, low |-> low, high |-> high,
                exc |-> IF p.exc # NoExc THEN p.exc ELSE a.exc,
                heat |-> p.heat, cool |-> p.cool, override |-> p.override,
                body |-> a.body]
    /\ IF failed
       THEN /\ task' = [task EXCEPT ![w].phase = "failed", ![w].log = <<"ValueError">>]
            /\ UNCHANGED frame
       ELSE /\ task' = [task EXCEPT ![w].phase = "op",
                            ![w].target = [heat |-> p.heat, cool |-> p.cool]]
            /\ frame' = [frame EXCEPT ![w] = req_enter(auth, "PUT", TRUE)]
    /\ UNCHANGED <<auth, thermostats, remote, stats, result, fault_budget,
                   kind, device, attr, updates_paused, heap, polls>>

\* a response arrives while the set-point PUT is awaited; when it returns, the
\* optimistic update of the set points, the publish and the first
\* confirmation poll of update_state_optimistically follow
SetPointWriteStep(w) ==
    /\ w \in Writers
    /\ task[w].phase = "op"
    /\ \E resp \in ResponsesFor(frame[w]) :
        LET r == req_step(frame[w], auth, resp) IN
        /\ Respond(w, resp)
        /\ auth' = r.auth
        /\ CASE r.out.kind = "pending" ->
                /\ frame' = [frame EXCEPT ![w] = r.frame]
                /\ UNCHANGED <<device, attr, task>>
             [] write_succeeded(r.out) ->
                /\ device' = set_point_update(device, task[w].target.heat,
                                           task[w].target.cool)
                /\ attr' = update_entity_attributes(device')
                /\ frame' = [frame EXCEPT ![w] = req_enter(auth', "GET", TRUE)]
                /\ task' = [task EXCEPT ![w].phase = "wait", ![w].elapsed = 0,
                                ![w].log = @ \o <<Outcome(r.out), "mutate", "publish", "poll">>]
             [] OTHER ->
                /\ frame' = [frame EXCEPT ![w] = NoFrame]
                /\ task' = [task EXCEPT ![w].phase = "failed",
                                ![w].log = @ \o <<Outcome(r.out)>>]
                /\ UNCHANGED <<device, attr>>
    /\ UNCHANGED <<thermostats, remote, stats, result, kind, updates_paused,
                   heap, polls, call>>

\* set_thermostat_home_set_points is called on the API object itself
ApiSetPoints(c, heat, cool, override_schedule) ==
    LET a == set_thermostat_home_set_points(heat, cool, override_schedule)
        f == req_enter(auth, "PUT", TRUE)
    IN
    /\ c \in Callers
    /\ frame[c].rpc = "none"
    /\ call.op # "async_set_temperature"
    /\ call' = [op |-> "set_thermostat_home_set_points",
                temperature |-> NoTemp, low |-> NoTemp, high |-> NoTemp,
                exc |-> a.exc, heat |-> heat, cool |-> cool,
                override |-> override_schedule, body |-> a.body]
    /\ IF a.exc # NoExc
       THEN /\ result' = [result EXCEPT ![c] = Raised(a.exc, 0)]
            /\ UNCHANGED <<frame, stats>>
       ELSE /\ result' = [result EXCEPT ![c] = Pending]
            /\ frame' = [frame EXCEPT ![c] = f]
            /\ stats' = [stats EXCEPT ![c] = Sent(NoStats, f)]
    /\ UNCHANGED <<auth, thermostats, remote, fault_budget, heap, polls>>
    /\ UNCHANGED entityVars

\* the climate entity of a thermostat in any mode, set up as in Setup
InitSetPoint ==
    /\ auth = [authenticated |-> TRUE, refresh_token |-> "r1", access_token |-> "a1"]
    /\ remote \in RemoteStates
    /\ thermostats = refresh_thermostats(remote)
    /\ frame = [t \in Tasks |-> NoFrame]
    /\ stats = [t \in Callers |-> NoStats]
    /\ result = [t \in Callers |-> Pending]
    /\ kind = "climate"
    /\ \E m \in AllModes, e \in BOOLEAN :
            device = [id |-> TheId, mode |-> m, set_point_heat |-> from_celsius(2004),
                      set_point_cool |-> from_celsius(2400), schedule_enabled |-> e]
    /\ attr = update_entity_attributes(device)
    /\ updates_paused = FALSE
    /\ task = [t \in Writers \cup Pollers |-> NoTask]
    /\ fault_budget = MaxFaults
    /\ heap = NoHeap /\ polls = NoPoll /\ call = NoCall

NextSetPoint ==
    \/ \E t \in SetTempInputs, lo \in SetTempInputs, hi \in SetTempInputs :
            AsyncSetTemperature("w1", t, lo, hi)
    \/ SetPointWriteStep("w1")
    \/ \E heat \in SetPoints, cool \in SetPoints, o \in BOOLEAN :
            ApiSetPoints("c1", heat, cool, o)
    \/ CallStep("c1")

SpecSetPoint == InitSetPoint /\ [][NextSetPoint]_vars

\* --------------------------------------------------------------- decoding
\* A device record of GET /deviceData as __map_thermostat and __map_equipment
\* read it.  The fields kept are the ones whose value decides what the decoder
\* does: the enum codes, the unit-type fields, the strings the equipment keys
\* are made of and the furnace's cool-demand fields; every other field both
\* methods read is taken to be present and of its type.

\* "key not in the payload" and python None, among numbers
NoKey == 0 - 1
NoneInt == 0 - 2

\* the members of the enums (by value)
DaikinThermostatMode == {0, 1, 2, 3, 4}
DaikinThermostatStatus == {1, 2, 3, 4, 5}
DaikinOutdoorUnitReversingValveStatus == {0, 1, 255}
DaikinOutdoorUnitHeaterStatus == {0, 1, 255}

\* codes the payloads carry: a member, a code outside the enum, no key
ModeCodes == {1, 9, NoKey}
StatusCodes == {5, 9}
ValveCodes == {0, 7}
HeaterCodes == {1, 7}
\* a unit type that is present, and the sentinel for "no such unit"
UnitTypes == {10, 255}
\* ctIFCCoolRequestedDemandPercent / ctIFCCurrentCoolActualStatus
CoolDemands == {40, NoKey}

Data ==
    [mode : ModeCodes,
     equipmentStatus : StatusCodes,
     ctAHUnitType : UnitTypes,
     ctAHModelNoCharacter1_15 : {"M1"},
     ctAHSerialNoCharacter1_15 : {"S1", "S1 "},
     ctIFCUnitType : UnitTypes,
     ctIFCModelNoCharacter1_15 : {"M1"},
     ctIFCSerialNoCharacter1_15 : {"S1", "S2"},
     ctIFCCoolRequestedDemandPercent : CoolDemands,
     ctIFCCurrentCoolActualStatus : {40},
     ctOutdoorUnitType : UnitTypes,
     ctOutdoorModelNoCharacter1_15 : {"M1", "M2"},
     ctOutdoorSerialNoCharacter1_15 : {"S1"},
     ctOutdoorHeatMaxRPS : {0, 90},
     ctReversingValve : ValveCodes,
     ctCrankCaseHeaterOnOff : HeaterCodes,
     ctDrainPanHeaterOnOff : {0},
     ctPreHeatOnOff : {0},
     ctCoilUnitType : UnitTypes,
     ctCoilSerialNoCharacter1_15 : {"S3"}]

\* a device record; complete says whether it has every field of
\* DaikinDeviceDataResponse (id, locationId, name, model, firmware, online,
\* data)
Payloads == [id : {"t1"}, complete : {TRUE}, data : Data]

\* str.strip() on the strings of the payloads
strip(s) == IF s = "S1 " THEN "S1" ELSE s

\* f"{model}-{serial}"
eid(model, serial) == model \o "-" \o serial

\* a decoder that falls back to UNKNOWN on an unmapped code
enum_default(code, members) == IF code = NoKey THEN "KeyError" ELSE NoExc

\* Enum(code): the exception it raises, if any
enum(code, members) ==
    IF code = NoKey THEN "KeyError"
    ELSE IF code \in members THEN NoExc ELSE "ValueError"

\* the first exception of a sequence of evaluations
first_exc(excs) ==
    IF \A k \in DOMAIN excs : excs[k] = NoExc THEN NoExc
    ELSE excs[CHOOSE k \in DOMAIN excs :
                /\ excs[k] # NoExc
                /\ \A j \in DOMAIN excs : j < k => excs[j] = NoExc]

\* payload.data[key] / 2 on a numeric field
half(v) == v \div 2

\* equipment[key] = unit
put(equipment, key, unit) ==
    [k \in DOMAIN equipment \cup {key} |-> IF k = key THEN unit ELSE equipment[k]]

Unit(type, name, model, serial) ==
    [type |-> type, name |-> name, model |-> model, serial |-> serial,
     id |-> Null, thermostat_id |-> Null,
     cool_demand_requested_percent |-> NoneInt,
     cool_demand_current_percent |-> NoneInt,
     reversing_valve |-> NoneInt, crank_case_heater |-> NoneInt]

NoEquipment == [k \in {} |-> Unit("none", "none", "", "")]

\* the id=eid and thermostat_id=payload.id arguments every unit is built with
Owned(unit, id, thermostat_id) ==
    [unit EXCEPT !.id = id, !.thermostat_id = thermostat_id]

\* the cool-demand arguments of the furnace's DaikinIndoorUnit(...)
furnace_cool(data) ==
    [exc |-> IF NoKey \in {data.ctIFCCoolRequestedDemandPercent,
                           data.ctIFCCurrentCoolActualStatus}
             THEN "KeyError" ELSE NoExc,
     requested |-> half(data.ctIFCCoolRequestedDemandPercent),
     current |-> half(data.ctIFCCurrentCoolActualStatus)]

\* payload.data["ct...UnitType"] < 255
present(unit_type) == unit_type < 255

\* the enum-coded fields of the outdoor unit, in the order of the arguments
outdoor_enums(data) ==
    first_exc(<<enum(data.ctReversingValve, DaikinOutdoorUnitReversingValveStatus),
                enum(data.ctCrankCaseHeaterOnOff, DaikinOutdoorUnitHeaterStatus),
                enum(data.ctDrainPanHeaterOnOff, DaikinOutdoorUnitHeaterStatus),
                enum(data.ctPreHeatOnOff, DaikinOutdoorUnitHeaterStatus)>>)

\* DaikinOne.__map_equipment: the exception it raises or the equipment dict
map_equipment(payload) ==
    LET data == payload.data
        \* air handler
        ah_model == strip(data.ctAHModelNoCharacter1_15)
        ah_serial == strip(data.ctAHSerialNoCharacter1_15)
        e1 == IF present(data.ctAHUnitType)
              THEN put(NoEquipment, eid(ah_model, ah_serial),
                       Owned(Unit("DaikinIndoorUnit", "Air Handler", ah_model, ah_serial),
                             eid(ah_model, ah_serial), payload.id))
              ELSE NoEquipment
        \* furnace
        ifc_model == strip(data.ctIFCModelNoCharacter1_15)
        ifc_serial == strip(data.ctIFCSerialNoCharacter1_15)
        cool == furnace_cool(data)
        x2 == IF present(data.ctIFCUnitType) THEN cool.exc ELSE NoExc
        e2 == IF present(data.ctIFCUnitType)
              THEN put(e1, eid(ifc_model, ifc_serial),
                       [Owned(Unit("DaikinIndoorUnit", "Furnace", ifc_model, ifc_serial),
                              eid(ifc_model, ifc_serial), payload.id)
                            EXCEPT !.cool_demand_requested_percent = cool.requested,
                                   !.cool_demand_current_percent = cool.current])
              ELSE e1
        \* outdoor unit
        od_model == strip(data.ctOutdoorModelNoCharacter1_15)
        od_serial == strip(data.ctOutdoorSerialNoCharacter1_15)
        od_name == IF data.ctOutdoorHeatMaxRPS # 0 /\ data.ctOutdoorHeatMaxRPS # 65535
                   THEN "Heat Pump" ELSE "Condensing Unit"
        x3 == IF present(data.ctOutdoorUnitType) THEN outdoor_enums(data) ELSE NoExc
        e3 == IF present(data.ctOutdoorUnitType)
              THEN put(e2, eid(od_model, od_serial),
                       [Owned(Unit("DaikinOutdoorUnit", od_name, od_model, od_serial),
                              eid(od_model, od_serial), payload.id)
                            EXCEPT !.reversing_valve = data.ctReversingValve,
                                   !.crank_case_heater = data.ctCrankCaseHeaterOnOff])
              ELSE e2
        \* eev coil
        coil_serial == strip(data.ctCoilSerialNoCharacter1_15)
        e4 == IF present(data.ctCoilUnitType)
              THEN put(e3, "eevcoil-" \o coil_serial,
                       Owned(Unit("DaikinEEVCoil", "EEV Coil", "EEV Coil", coil_serial),
                             "eevcoil-" \o coil_serial, payload.id))
              ELSE e3
        exc == first_exc(<<x2, x3>>)
    IN [exc |-> exc, equipment |-> IF exc = NoExc THEN e4 ELSE NoEquipment]

NoThermostat ==
    [id |-> Null, mode |-> NoKey, status |-> NoKey, equipment |-> NoEquipment]

\* DaikinOne.__map_thermostat with the equipment: the exception it raises or
\* the DaikinThermostat
map_thermostat_fields(payload) ==
    LET eq == map_equipment(payload)
        exc == first_exc(<<enum(payload.data.mode, DaikinThermostatMode),
                           enum(payload.data.equipmentStatus, DaikinThermostatStatus),
                           eq.exc>>)
    IN [exc |-> exc,
        thermostat |-> IF exc # NoExc THEN NoThermostat
                       ELSE [id |-> payload.id, mode |-> payload.data.mode,
                             status |-> payload.data.equipmentStatus,
                             equipment |-> eq.equipment]]

\* the decoder is applied to a device record
MapThermostat ==
    /\ call.op = "none"
    /\ call' = [op |-> "map_thermostat", out |-> map_thermostat_fields(remote[1])]
    /\ UNCHANGED <<auth, thermostats, remote, frame, stats, result, fault_budget,
                   heap, polls>>
    /\ UNCHANGED entityVars

InitDecode ==
    /\ auth = [authenticated |-> TRUE, refresh_token |-> "r1", access_token |-> "a1"]
    /\ remote \in {<<p>> : p \in Payloads}
    /\ thermostats = EmptyCache
    /\ frame = [t \in Tasks |-> NoFrame]
    /\ stats = [t \in Callers |-> NoStats]
    /\ result = [t \in Callers |-> Pending]
    /\ kind = "none"
    /\ device = Null
    /\ attr = Null
    /\ updates_paused = FALSE
    /\ task = [t \in Writers \cup Pollers |-> NoTask]
    /\ fault_budget = 0
    /\ heap = NoHeap /\ polls = NoPoll /\ call = NoCall

NextDecode == MapThermostat

SpecDecode == InitDecode /\ [][NextDecode]_vars

\* ---------------------------------------------------------------- polling
\* update() on device lists that hold well-formed and malformed records, next
\* to the writes of the API object and an entity's snapshot.

\* faulty responses of the backend in these runs
PollFaults == 1

\* the endpoints
DAIKIN_API_URL_LOGIN == "/users/auth/login"
DAIKIN_API_URL_REFRESH_TOKEN == "/users/auth/token"
DAIKIN_API_URL_LOCATIONS == "/locations"
DAIKIN_API_URL_DEVICE_DATA == "/deviceData"

\* the endpoint the request of frame f of an update() goes to
endpoint(f) ==
    CASE f.rpc \in {"login", "refresh_login"} -> DAIKIN_API_URL_LOGIN
      [] f.rpc = "refresh" -> DAIKIN_API_URL_REFRESH_TOKEN
      [] OTHER -> DAIKIN_API_URL_DEVICE_DATA

\* a record every field of which is present and mapped: a thermostat with an
\* air handler and an outdoor unit
GoodData(m) ==
    [mode |-> m, equipmentStatus |-> 5,
     ctAHUnitType |-> 10, ctAHModelNoCharacter1_15 |-> "M1",
     ctAHSerialNoCharacter1_15 |-> "S1",
     ctIFCUnitType |-> 255, ctIFCModelNoCharacter1_15 |-> "M1",
     ctIFCSerialNoCharacter1_15 |-> "S2",
     ctIFCCoolRequestedDemandPercent |-> 40, ctIFCCurrentCoolActualStatus |-> 40,
     ctOutdoorUnitType |-> 10, ctOutdoorModelNoCharacter1_15 |-> "M2",
     ctOutdoorSerialNoCharacter1_15 |-> "S1", ctOutdoorHeatMaxRPS |-> 0,
     ctReversingValve |-> 0, ctCrankCaseHeaterOnOff |-> 1,
     ctDrainPanHeaterOnOff |-> 0, ctPreHeatOnOff |-> 0,
     ctCoilUnitType |-> 255, ctCoilSerialNoCharacter1_15 |-> "S3"]

\* the records the cloud can hold for device i: well-formed in either mode,
\* with an unmapped mode code, with a furnace that lacks a cool-demand field,
\* or without one of the fields of DaikinDeviceDataResponse
PollRecords(i) ==
    {[id |-> i, complete |-> TRUE, data |-> GoodData(m)] : m \in Modes}
    \cup {[id |-> i, complete |-> TRUE, data |-> [GoodData(1) EXCEPT !.mode = 9]],
          [id |-> i, complete |-> TRUE,
           data |-> [GoodData(1) EXCEPT !.ctIFCUnitType = 10,
                                        !.ctIFCCoolRequestedDemandPercent = NoKey]],
          [id |-> i, complete |-> FALSE, data |-> GoodData(1)]}

\* the device lists GET /deviceData can answer with: one device, or two of
\* which the second is well-formed or has an unmapped mode code
PollBodies ==
    {<<r>> : r \in PollRecords("t1")}
    \cup {<<r, q>> : r \in PollRecords("t1"),
                     q \in {p \in PollRecords("t2") :
                                p.complete /\ p.data.mode # 0 /\ p.data.ctIFCUnitType = 255}}

\* DaikinDeviceDataResponse(**device): pydantic rejects an incomplete record
validate(record) == IF record.complete THEN NoExc ELSE "ValidationError"

\* a poll that caches the records decoded before the one that failed
refresh_thermostats_partial(cache, devices) ==
    LET bad == {k \in DOMAIN devices :
                    validate(devices[k]) # NoExc
                    \/ map_thermostat_fields(devices[k]).exc # NoExc}
        ok == {k \in DOMAIN devices : \A j \in bad : k < j}
    IN [exc |-> IF bad = {} THEN NoExc ELSE "ValueError",
        cache |-> [i \in {devices[k].id : k \in ok} |->
                    map_thermostat_fields(
                        devices[CHOOSE k \in ok : devices[k].id = i]).thermostat]]

\* DaikinOne.__refresh_thermostats from the response body on, on records that
\* may be malformed: the exception it raises, and the cache afterwards
refresh_thermostats_checked(cache, devices) ==
    LET mapped == [k \in DOMAIN devices |-> map_thermostat_fields(devices[k])]
        exc == first_exc([k \in DOMAIN devices |-> validate(devices[k])]
                         \o [k \in DOMAIN devices |-> mapped[k].exc])
    IN [exc |-> exc,
        cache |-> IF exc # NoExc THEN cache
                  ELSE [i \in {devices[k].id : k \in DOMAIN devices} |->
                            mapped[CHOOSE k \in DOMAIN devices :
                                        devices[k].id = i].thermostat]]

\* the cloud's device list changes
PollRemoteChange(b) ==
    /\ b \in PollBodies
    /\ remote # b
    /\ remote' = b
    /\ UNCHANGED <<auth, thermostats, frame, stats, result, fault_budget>>
    /\ UNCHANGED entityVars
    /\ UNCHANGED auxVars

\* update() is called: __refresh_thermostats up to its await; `call` lists the
\* endpoints the call has sent a request to
PollStart(c) ==
    /\ c \in Callers
    /\ frame[c].rpc = "none"
    /\ LET f == req_enter(auth, "GET", TRUE) IN
        /\ frame' = [frame EXCEPT ![c] = f]
        /\ stats' = [stats EXCEPT ![c] = Sent(NoStats, f)]
        /\ call' = [op |-> "update", requests |-> <<endpoint(f)>>, swapped |-> FALSE]
    /\ result' = [result EXCEPT ![c] = Pending]
    /\ UNCHANGED <<auth, thermostats, remote, fault_budget, heap, polls>>
    /\ UNCHANGED entityVars

\* a response arrives for an update(): when __req returns, the records are
\* validated and decoded and the cache is replaced, or the exception of the
\* first record that fails leaves update()
PollCallStep(c) ==
    /\ c \in Callers
    /\ frame[c].rpc # "none"
    /\ frame[c].method = "GET"
    /\ call.op = "update"
    /\ \E resp \in ResponsesFor(frame[c]) :
        LET r == req_step(frame[c], auth, resp)
            n == refresh_thermostats_checked(thermostats, r.out.body)
            done == r.out.kind = "return"
        IN
        /\ Respond(c, resp)
        /\ frame' = [frame EXCEPT ![c] = r.frame]
        /\ auth' = r.auth
        /\ stats' = [stats EXCEPT ![c] = Sent(Received(@, resp), r.frame)]
        /\ result' = [result EXCEPT ![c] =
                        IF done /\ n.exc # NoExc THEN Raised(n.exc, 0) ELSE r.out]
        /\ thermostats' = IF done THEN n.cache ELSE thermostats
        /\ call' = [call EXCEPT
                        !.requests = IF r.frame.rpc = "none" THEN @
                                     ELSE @ \o <<endpoint(r.frame)>>,
                        !.swapped = done /\ n.exc = NoExc]
    /\ UNCHANGED <<remote, heap, polls>>
    /\ UNCHANGED entityVars

\* a response arrives for a write of the API object (set_thermostat_mode,
\* set_thermostat_home_set_points)
PutStep(c) == frame[c].method = "PUT" /\ CallStep(c)

\* an entity takes its snapshot from the cache (get_thermostat)
TakeSnapshot(id) ==
    /\ id \in DOMAIN thermostats
    /\ device' = get_thermostat(thermostats, id)
    /\ UNCHANGED <<auth, thermostats, remote, frame, stats, result, fault_budget,
                   kind, attr, updates_paused, task>>
    /\ UNCHANGED auxVars

\* the entity's optimistic update of its snapshot
MutateSnapshot(m) ==
    /\ device # NoThermostat
    /\ device.mode # m
    /\ device' = optimistic_update(device, m)
    /\ UNCHANGED <<auth, thermostats, remote, frame, stats, result, fault_budget,
                   kind, attr, updates_paused, task>>
    /\ UNCHANGED auxVars

\* the API object after login, before its first poll
InitPoll ==
    /\ auth = [authenticated |-> TRUE, refresh_token |-> "r1", access_token |-> "a1"]
    /\ remote \in PollBodies
    /\ thermostats = EmptyCache
    /\ frame = [t \in Tasks |-> NoFrame]
    /\ stats = [t \in Callers |-> NoStats]
    /\ result = [t \in Callers |-> Pending]
    /\ kind = "none"
    /\ device = NoThermostat
    /\ attr = Null
    /\ updates_paused = FALSE
    /\ task = [t \in Writers \cup Pollers |-> NoTask]
    /\ fault_budget = PollFaults
    /\ heap = NoHeap /\ polls = NoPoll /\ call = NoCall

NextPoll ==
    \/ \E b \in PollBodies : PollRemoteChange(b)
    \/ PollStart("c1") \/ PollCallStep("c1")
    \/ Call("c1", "PUT") \/ PutStep("c1")
    \/ \E heat \in {NoTemp, from_celsius(2004)} : ApiSetPoints("c1", heat, NoTemp, FALSE)
    \/ TakeSnapshot(TheId)
    \/ \E m \in Modes : MutateSnapshot(m)

SpecPoll == InitPoll /\ [][NextPoll]_vars

\* ------------------------------------------------------------ temperatures
\* A Temperature is its _temp_c, a number of tenths of a degree (round(c, 1));
\* the floats it is made from are numbers of hundredths.

\* how far the inputs lie from 0.00 and from 20.00 degrees, in hundredths
TempSpan == 6

\* the floats: around zero (both signs) and around 20 degrees; a value
\* halfway between two tenths is left out, python rounds it by the binary
\* value of the float
TempInputs ==
    {c \in ((0 - TempSpan)..TempSpan) \cup ((2000 - TempSpan)..(2000 + TempSpan)) :
        c % 10 # 5}

\* Temperature.celsius: round(self._temp_c, 1)
celsius(t) == from_celsius(10 * t)

\* equality of objects that define no __eq__: identity
temperature_is(self, o) == FALSE

\* Temperature.__eq__: isinstance(o, Temperature) and self._temp_c == o._temp_c
temperature_eq(self, o) == o # NoTemp /\ self = o

\* the check closures of async_set_temperature: one set point (heat or cool),
\* and both
check_set_point(set_point, temperature) == temperature_eq(set_point, temperature)
check_set_points(dev, heat, cool) ==
    temperature_eq(dev.set_point_heat, heat) /\ temperature_eq(dev.set_point_cool, cool)

\* a set point is asked for as a (temperature), the cloud reports b
\* (hspActive / cspActive) in the next poll; the confirmation predicate
\* compares the two Temperature objects
CompareSetPoint(a, b) ==
    LET wanted == from_celsius(a)
        other == IF b = NoTemp THEN NoTemp ELSE from_celsius(b)
        dev == [set_point_heat |-> from_celsius(b), set_point_cool |-> from_celsius(b)]
    IN
    /\ call' = [op |-> "compare", a |-> a, b |-> b,
                celsius |-> celsius(wanted),
                eq |-> temperature_eq(wanted, other),
                hit |-> IF b = NoTemp THEN FALSE ELSE check_set_point(dev.set_point_heat, wanted),
                hit_both |-> IF b = NoTemp THEN FALSE
                             ELSE check_set_points(dev, wanted, wanted)]
    /\ UNCHANGED <<auth, thermostats, remote, frame, stats, result, fault_budget,
                   heap, polls>>
    /\ UNCHANGED entityVars

InitTemp ==
    /\ auth = AuthInit
    /\ remote = Null
    /\ thermostats = EmptyCache
    /\ frame = [t \in Tasks |-> NoFrame]
    /\ stats = [t \in Callers |-> NoStats]
    /\ result = [t \in Callers |-> Pending]
    /\ kind = "none"
    /\ device = Null
    /\ attr = Null
    /\ updates_paused = FALSE
    /\ task = [t \in Writers \cup Pollers |-> NoTask]
    /\ fault_budget = 0
    /\ heap = NoHeap /\ polls = NoPoll /\ call = NoCall

NextTemp == \E a \in TempInputs, b \in TempInputs \cup {NoTemp} : CompareSetPoint(a, b)

SpecTemp == InitTemp /\ [][NextTemp]_vars

\* ------------------------------------------------------ overlapping polls
\* Two update() calls (the background poll of an entity and a confirmation
\* poll), each on its own connection: the cloud produces a response, and the
\* caller processes it when "await response.json()" resumes, which can be after
\* the other call's.  `polls` numbers the responses as the cloud produces them.

\* responses the cloud produces in a run
MaxPolls == 3

NoPolls == [any |-> FALSE, body |-> EmptyCache, seq |-> 0, newest |-> 0, made |-> 0]

\* the cloud answers the request of an update(): a 200 leaves the call
\* suspended in "await response.json()" with the device list as it is now
RaceAnswer(t) ==
    /\ t \in UpdateCallers
    /\ frame[t].rpc \notin {"none", "json"}
    /\ polls.made < MaxPolls
    /\ \E resp \in ResponsesFor(frame[t]) :
        LET r == req_step(frame[t], auth, resp) IN
        /\ Respond(t, resp)
        /\ auth' = r.auth
        /\ IF r.out.kind = "return"
           THEN /\ frame' = [frame EXCEPT ![t] =
                                [rpc |-> "json", retry |-> frame[t].retry,
                                 method |-> frame[t].method, body |-> r.out.body,
                                 seq |-> polls.made + 1]]
                /\ polls' = [polls EXCEPT !.made = @ + 1]
           ELSE /\ frame' = [frame EXCEPT ![t] = r.frame]
                /\ UNCHANGED polls
    /\ UNCHANGED <<thermostats, remote, device, heap, call>>
    /\ UNCHANGED cacheUnused

\* a cache that drops a response older than the one it holds
RaceDecodeNewest(t) ==
    /\ t \in UpdateCallers
    /\ frame[t].rpc = "json"
    /\ thermostats' = IF frame[t].seq < polls.newest THEN thermostats
                      ELSE refresh_thermostats(frame[t].body)
    /\ polls' = [polls EXCEPT !.any = TRUE, !.body = frame[t].body,
                              !.seq = frame[t].seq,
                              !.newest = IF frame[t].seq > @ THEN frame[t].seq ELSE @]
    /\ frame' = [frame EXCEPT ![t] = NoFrame]
    /\ UNCHANGED <<auth, remote, fault_budget, device, heap, call>>
    /\ UNCHANGED cacheUnused

\* the body has been read: __req returns it, __refresh_thermostats decodes it
\* and binds the cache to the result
RaceDecode(t) ==
    /\ t \in UpdateCallers
    /\ frame[t].rpc = "json"
    /\ thermostats' = refresh_thermostats(frame[t].body)
    /\ polls' = [polls EXCEPT !.any = TRUE, !.body = frame[t].body,
                              !.seq = frame[t].seq,
                              !.newest = IF frame[t].seq > @ THEN frame[t].seq ELSE @]
    /\ frame' = [frame EXCEPT ![t] = NoFrame]
    /\ UNCHANGED <<auth, remote, fault_budget, device, heap, call>>
    /\ UNCHANGED cacheUnused

\* the API object after login and a first poll
InitRace ==
    /\ auth = [authenticated |-> TRUE, refresh_token |-> "r1", access_token |-> "a1"]
    /\ remote \in RemoteStates
    /\ thermostats = refresh_thermostats(remote)
    /\ frame = [t \in Tasks |-> NoFrame]
    /\ stats = [t \in Callers |-> NoStats]
    /\ result = [t \in Callers |-> Pending]
    /\ kind = "none"
    /\ device = Null
    /\ attr = Null
    /\ updates_paused = FALSE
    /\ task = [t \in Writers \cup Pollers |-> NoTask]
    /\ fault_budget = OverlapFaults
    /\ heap = NoHeap /\ polls = NoPolls /\ call = NoCall

NextRace ==
    \/ \E t \in UpdateCallers : UpdateStart(t) \/ RaceAnswer(t) \/ RaceDecode(t)
    \/ \E d \in DeviceIds, m \in Modes : RemoteChange(d, m)

SpecRace == InitRace /\ [][NextRace]_vars

\* ---------------------------------------------------------- capabilities
\* The capability flags of a device record, the capabilities __map_thermostat
\* gives the thermostat, and what the climate entity offers from them.

\* DaikinThermostatCapability
DaikinThermostatCapability == {"HEAT", "COOL", "EMERGENCY_HEAT"}

\* the payload flag of each capability
CapabilityFlag ==
    [c \in DaikinThermostatCapability |->
        CASE c = "HEAT" -> "ctSystemCapHeat"
          [] c = "COOL" -> "ctSystemCapCool"
          [] OTHER -> "ctSystemCapEmergencyHeat"]

\* values of a flag: false, true, key not in the payload
CapFlags == {0, 1, NoKey}

CapRecords ==
    [ctSystemCapHeat : CapFlags, ctSystemCapCool : CapFlags,
     ctSystemCapEmergencyHeat : CapFlags]

\* truth value of a flag ("if payload.data[...]:")
truthy(v) == v # 0

\* the first lines of __map_thermostat: the exception of a missing flag, or
\* the capability set; it starts as set(DaikinThermostatCapability), the set
\* of the enum's members
map_capabilities(data) ==
    LET exc == IF \E c \in DaikinThermostatCapability : data[CapabilityFlag[c]] = NoKey
               THEN "KeyError" ELSE NoExc
        capabilities == DaikinThermostatCapability
        added == {c \in DaikinThermostatCapability : truthy(data[CapabilityFlag[c]])}
    IN [exc |-> exc,
        capabilities |-> IF exc = NoExc THEN capabilities \cup added ELSE {}]

\* DaikinOneThermostat.get_hvac_modes
get_hvac_modes(capabilities) ==
    (IF "HEAT" \in capabilities /\ "COOL" \in capabilities
     THEN <<"heat_cool">> ELSE <<>>)
    \o (IF "HEAT" \in capabilities THEN <<"heat">> ELSE <<>>)
    \o (IF "COOL" \in capabilities THEN <<"cool">> ELSE <<>>)
    \o <<"off">>

\* DaikinOneThermostat.__init__: _attr_preset_modes
preset_modes(capabilities) ==
    <<"none">> \o (IF "EMERGENCY_HEAT" \in capabilities
                    THEN <<"emergency_heat">> ELSE <<>>)

\* async_set_hvac_mode: "match hvac_mode"
hvac_target_mode(hvac_mode) ==
    CASE hvac_mode = "heat_cool" -> [exc |-> NoExc, mode |-> 3]
      [] hvac_mode = "heat" -> [exc |-> NoExc, mode |-> 1]
      [] hvac_mode = "cool" -> [exc |-> NoExc, mode |-> 2]
      [] hvac_mode = "off" -> [exc |-> NoExc, mode |-> 0]
      [] OTHER -> [exc |-> "ValueError", mode |-> NoKey]

\* async_set_preset_mode: the mode it sets, none (NoKey) when nothing is to do
preset_target_mode(preset_mode, mode) ==
    CASE preset_mode = "emergency_heat" -> [exc |-> NoExc, mode |-> 4]
      [] preset_mode = "none" ->
            [exc |-> NoExc, mode |-> IF mode = 4 THEN 1 ELSE NoKey]
      [] OTHER -> [exc |-> "ValueError", mode |-> NoKey]

HvacModes == {"heat_cool", "heat", "cool", "off", "dry"}
PresetModes == {"none", "emergency_heat", "eco"}

\* the decoder reads the capability flags of the device record
MapCapabilities ==
    /\ call.op = "none"
    /\ LET m == map_capabilities(remote[1].data) IN
        call' = [op |-> "map_capabilities", exc |-> m.exc,
                 capabilities |-> m.capabilities]
    /\ UNCHANGED <<auth, thermostats, remote, frame, stats, result, fault_budget,
                   heap, polls>>
    /\ UNCHANGED entityVars

\* async_setup_entry builds the climate entity of the decoded thermostat
ClimateInit(m) ==
    /\ call.op = "map_capabilities" /\ call.exc = NoExc
    /\ kind = "none"
    /\ kind' = "climate"
    /\ device' = [id |-> remote[1].id, mode |-> m, capabilities |-> call.capabilities]
    /\ attr' = [hvac_modes |-> get_hvac_modes(call.capabilities),
                preset_modes |-> preset_modes(call.capabilities)]
    /\ UNCHANGED <<auth, thermostats, remote, frame, stats, result, fault_budget,
                   updates_paused, task, heap, polls, call>>

\* a mode is requested of the entity: the write of set_thermostat_mode goes
\* out, or ValueError
ModeRequested(w, op, asked, t) ==
    /\ w \in Writers
    /\ kind = "climate"
    /\ task[w].phase = "idle"
    /\ call' = [op |-> op, asked |-> asked, exc |-> t.exc, target_mode |-> t.mode]
    /\ IF t.exc # NoExc
       THEN /\ task' = [task EXCEPT ![w].phase = "failed", ![w].log = <<t.exc>>]
            /\ UNCHANGED frame
       ELSE IF t.mode = NoKey
       THEN /\ task' = [task EXCEPT ![w].phase = "done"]
            /\ UNCHANGED frame
       ELSE /\ task' = [task EXCEPT ![w].phase = "op", ![w].target = t.mode]
            /\ frame' = [frame EXCEPT ![w] = req_enter(auth, "PUT", TRUE)]
    /\ UNCHANGED <<auth, thermostats, remote, stats, result, fault_budget,
                   kind, device, attr, updates_paused, heap, polls>>

\* async_set_hvac_mode up to its await of the write
AsyncSetHvacMode(w, hvac_mode) ==
    /\ hvac_mode \in HvacModes
    /\ ModeRequested(w, "async_set_hvac_mode", hvac_mode, hvac_target_mode(hvac_mode))

\* async_set_preset_mode up to its await of the write
AsyncSetPresetMode(w, preset_mode) ==
    /\ preset_mode \in PresetModes
    /\ ModeRequested(w, "async_set_preset_mode", preset_mode,
                     preset_target_mode(preset_mode, device.mode))

InitCaps ==
    /\ auth = [authenticated |-> TRUE, refresh_token |-> "r1", access_token |-> "a1"]
    /\ remote \in {<<[id |-> TheId, data |-> r]>> : r \in CapRecords}
    /\ thermostats = EmptyCache
    /\ frame = [t \in Tasks |-> NoFrame]
    /\ stats = [t \in Callers |-> NoStats]
    /\ result = [t \in Callers |-> Pending]
    /\ kind = "none"
    /\ device = Null
    /\ attr = Null
    /\ updates_paused = FALSE
    /\ task = [t \in Writers \cup Pollers |-> NoTask]
    /\ fault_budget = 0
    /\ heap = NoHeap /\ polls = NoPoll /\ call = NoCall

NextCaps ==
    \/ MapCapabilities
    \/ \E m \in {1, 4} : ClimateInit(m)
    \/ \E h \in HvacModes : AsyncSetHvacMode("w1", h)
    \/ \E p \in PresetModes : AsyncSetPresetMode("w1", p)

SpecCaps == InitCaps /\ [][NextCaps]_vars

\* ------------------------------------------------- set-point confirmation
\* async_set_temperature to its end: the write, the optimistic update and the
\* confirmation loop on the set points the cloud reports.

\* hspActive / cspActive as the cloud reports them, in hundredths
HeatReports == {2000, 2150}
CoolReports == {2400, 2600}

\* the kwargs of the calls of these runs
RangeInputs == [temperature : {NoTemp, 2150}, low : {NoTemp, 2150},
                high : {NoTemp, 2600}]

SetPointRecords ==
    [id : {TheId}, mode : {1, 3}, hspActive : HeatReports, cspActive : CoolReports,
     schedEnabled : BOOLEAN]

\* DaikinOne.__map_thermostat: the fields the set-point writes read
map_thermostat_set_points(payload) ==
    [id |-> payload.id, mode |-> payload.mode,
     set_point_heat |-> from_celsius(payload.hspActive),
     set_point_cool |-> from_celsius(payload.cspActive),
     schedule_enabled |-> payload.schedEnabled]

\* DaikinOne.__refresh_thermostats, from the response body on
refresh_set_points(body) ==
    [i \in DOMAIN body |-> map_thermostat_set_points(body[i])]

\* the check closure async_set_temperature passes on: both set points in the
\* range branch, the one it set in the single-temperature branches
set_point_check(c, dev, target) ==
    IF Truthy(c.low) \/ Truthy(c.high)
    THEN check_set_points(dev, target.heat, target.cool)
    ELSE IF target.heat # NoTemp
    THEN check_set_point(dev.set_point_heat, target.heat)
    ELSE check_set_point(dev.set_point_cool, target.cool)

\* the cloud's set points change (the write takes effect, somebody turns the
\* dial)
RemoteSetPoints(d, h, c) ==
    /\ remote[d].hspActive # h \/ remote[d].cspActive # c
    /\ remote' = [remote EXCEPT ![d].hspActive = h, ![d].cspActive = c]
    /\ UNCHANGED <<auth, thermostats, frame, stats, result, fault_budget>>
    /\ UNCHANGED entityVars
    /\ UNCHANGED auxVars

\* a response arrives while a confirmation poll of a set-point write is
\* awaited
SetPointConfirmStep(w) ==
    /\ w \in Writers
    /\ task[w].phase = "wait"
    /\ \E resp \in ResponsesFor(frame[w]) :
        LET r == req_step(frame[w], auth, resp) IN
        /\ Respond(w, resp)
        /\ auth' = r.auth
        /\ CASE r.out.kind = "pending" ->
                /\ frame' = [frame EXCEPT ![w] = r.frame]
                /\ UNCHANGED <<thermostats, updates_paused, task>>
             [] r.out.kind = "return" ->
                /\ thermostats' = refresh_set_points(r.out.body)
                /\ IF set_point_check(call, get_thermostat(thermostats', TheId),
                                      task[w].target)
                   THEN EndWait(w, "hit")
                   ELSE IF giveup(task[w].elapsed)
                   THEN EndWait(w, "giveup")
                   ELSE /\ frame' = [frame EXCEPT ![w] = NoFrame]
                        /\ task' = [task EXCEPT ![w].phase = "sleep",
                                        ![w].log = @ \o <<"miss">>]
                        /\ UNCHANGED updates_paused
             [] OTHER ->
                /\ frame' = [frame EXCEPT ![w] = NoFrame]
                /\ task' = [task EXCEPT ![w].phase = "failed", ![w].elapsed = 0,
                                ![w].log = @ \o <<"poll_failed">>]
                /\ UNCHANGED <<thermostats, updates_paused>>
    /\ UNCHANGED <<remote, stats, result, kind, device, attr>>
    /\ UNCHANGED auxVars

\* a response arrives while the final async_update(no_throttle=True) of a
\* set-point write is awaited
SetPointFinalStep(w) ==
    /\ w \in Writers
    /\ task[w].phase = "final"
    /\ \E resp \in ResponsesFor(frame[w]) :
        LET r == req_step(frame[w], auth, resp) IN
        /\ Respond(w, resp)
        /\ auth' = r.auth
        /\ CASE r.out.kind = "pending" ->
                /\ frame' = [frame EXCEPT ![w] = r.frame]
                /\ UNCHANGED <<thermostats, device, attr, task>>
             [] r.out.kind = "return" ->
                /\ thermostats' = refresh_set_points(r.out.body)
                /\ device' = get_thermostat(thermostats', TheId)
                /\ attr' = update_entity_attributes(device')
                /\ frame' = [frame EXCEPT ![w] = NoFrame]
                /\ task' = [task EXCEPT ![w].phase = "done",
                                ![w].log = @ \o <<"replace", "publish">>]
             [] OTHER ->
                /\ frame' = [frame EXCEPT ![w] = NoFrame]
                /\ task' = [task EXCEPT ![w].phase = "failed",
                                ![w].log = @ \o <<"refresh_failed">>]
                /\ UNCHANGED <<thermostats, device, attr>>
    /\ UNCHANGED <<remote, stats, result, kind, updates_paused>>
    /\ UNCHANGED auxVars

\* the climate entity of a thermostat in HEAT or AUTO, built from the cache
InitRange ==
    /\ auth = [authenticated |-> TRUE, refresh_token |-> "r1", access_token |-> "a1"]
    /\ remote \in [DeviceIds -> SetPointRecords]
    /\ thermostats = refresh_set_points(remote)
    /\ frame = [t \in Tasks |-> NoFrame]
    /\ stats = [t \in Callers |-> NoStats]
    /\ result = [t \in Callers |-> Pending]
    /\ kind = "climate"
    /\ device = get_thermostat(thermostats, TheId)
    /\ attr = update_entity_attributes(device)
    /\ updates_paused = FALSE
    /\ task = [t \in Writers \cup Pollers |-> NoTask]
    /\ fault_budget = OverlapFaults
    /\ heap = NoHeap /\ polls = NoPoll /\ call = NoCall

NextRange ==
    \/ \E k \in RangeInputs : AsyncSetTemperature("w1", k.temperature, k.low, k.high)
    \/ SetPointWriteStep("w1")
    \/ SetPointConfirmStep("w1")
    \/ \E d \in Delays : Wake("w1", d)
    \/ SetPointFinalStep("w1")
    \/ \E d \in DeviceIds, h \in HeatReports, c \in CoolReports : RemoteSetPoints(d, h, c)

SpecRange == InitRange /\ [][NextRange]_vars

\* ------------------------------------------------------------ transport
\* the caller's __req call has returned or raised
Finished(c) == frame[c].rpc = "none" /\ result[c].kind # "pending"

\* C1: a logical __req call sends at most two requests to its url, whatever
\* the backend answers; when every answer it got was a 401 it has sent exactly
\* two and ended with DaikinServiceException.
C1_SingleRetryBound ==
    \A c \in Callers :
        /\ stats[c].url <= 2
        /\ Finished(c) /\ stats[c].all401 =>
                /\ stats[c].url = 2
                /\ result[c] = Raised("DaikinServiceException", 401)

\* a call that got nothing but 401s, logins included, has ended
C1_Witness ==
    /\ Finished("c1") /\ stats["c1"].all401
    /\ stats["c1"].url = 2 /\ stats["c1"].login = 3 /\ stats["c1"].refresh = 1

\* the step in which caller c receives the answer to its url request
UrlAnswered(c) == frame[c].rpc = "url" /\ frame'[c] # frame[c]

NothingSent(c) ==
    /\ stats'[c].url = stats[c].url
    /\ stats'[c].login = stats[c].login
    /\ stats'[c].refresh = stats[c].refresh

\* C2: on 200 __req returns the body; on a status other than 200 and 401, and
\* on a 401 answered to the retry, it raises DaikinServiceException at once,
\* sending nothing more and leaving the tokens alone; the exception carries
\* the status of the last response.
C2_ReqOutcome ==
    [][\A c \in Callers :
        /\ UrlAnswered(c) /\ stats'[c].last = 200 =>
                result'[c] = Returned(remote) /\ frame'[c] = NoFrame
        /\ UrlAnswered(c) /\ stats'[c].last \notin {200, 401, NetErr} =>
                /\ result'[c] = Raised("DaikinServiceException", stats'[c].last)
                /\ frame'[c] = NoFrame /\ NothingSent(c) /\ auth' = auth
        /\ UrlAnswered(c) /\ stats'[c].last = 401 /\ ~frame[c].retry =>
                /\ result'[c] = Raised("DaikinServiceException", 401)
                /\ frame'[c] = NoFrame /\ NothingSent(c) /\ auth' = auth
        /\ result'[c].kind = "DaikinServiceException" =>
                result'[c].status = stats'[c].last]_vars

\* a first answer of 500 has ended the call with one request sent
C2_Witness ==
    /\ result["c1"] = Raised("DaikinServiceException", 500)
    /\ stats["c1"].url = 1 /\ stats["c1"].refresh = 0

\* --------------------------------------------------------- optimistic writes
Active(w) == task[w].phase \in {"op", "wait", "sleep", "final"}
Ended(w) == task[w].phase \in {"done", "failed"}

\* the optimistic mutation is applied and the confirmation loop has not ended
InWindow(w) == task[w].phase \in {"wait", "sleep"}

Has(log, ev) == \E i \in 1..Len(log) : log[i] = ev
Count(log, ev) == Cardinality({i \in 1..Len(log) : log[i] = ev})
LastN(log, n) == IF Len(log) < n THEN <<>> ELSE SubSeq(log, Len(log) - n + 1, Len(log))

\* C3: once no optimistic write is in progress any more, however the writes
\* ended, _updates_paused is false.
C3_NeverLeftPaused ==
    (\A w \in Writers : ~Active(w)) => ~updates_paused

\* C4: while a write is between its optimistic mutation and the end of its
\* confirmation loop, a periodic async_update neither starts a fetch nor
\* replaces the snapshot.
C4_NoPeriodicUpdateInWindow ==
    [][(\E w \in Writers : InWindow(w)) =>
        /\ \A p \in Pollers : task[p].phase = "idle" => task'[p].phase = "idle"
        /\ task' = task /\ frame' = frame => device' = device]_vars

\* C5: a write whose request succeeded ends by resume, forced refresh that
\* replaces the snapshot, second publish, in that order.
C5_EndsReconciled ==
    \A w \in Writers :
        Ended(w) /\ Has(task[w].log, "write_ok") =>
            LastN(task[w].log, 4) = <<"resume", "refresh", "replace", "publish">>

\* the log of writer w up to its confirming poll: tries that missed, then a hit
ConfirmedAtKth(log) ==
    \E i \in 1..Len(log) :
        /\ log[i] = "hit"
        /\ Count(log, "poll") = Count(log, "miss") + 1
        /\ \A j \in 1..Len(log) : log[j] \in {"poll", "miss"} => j < i
        /\ Len(log) >= i + 2 /\ log[i + 1] = "resume" /\ log[i + 2] = "refresh"
        /\ Count(log, "refresh") = 1

\* C6: when the k-th confirmation poll is the first to satisfy the check, the
\* loop has made exactly k polls and makes no more, polling is resumed, and the
\* forced refresh is started exactly once, after that poll.
C6_ConfirmOnKthPoll ==
    [][\A w \in Writers :
        /\ Has(task'[w].log, "hit") => ConfirmedAtKth(task'[w].log)
        /\ ~Has(task[w].log, "hit") /\ Has(task'[w].log, "hit") =>
                /\ task[w].phase = "wait" /\ task'[w].phase = "final"
                /\ check(get_thermostat(thermostats', TheId), task[w].target)
                /\ ~updates_paused'
                /\ frame'[w].rpc # "none" /\ frame'[w].method = "GET"]_vars

\* a write confirmed by its third poll is done
C6_Witness ==
    /\ task["w1"].phase = "done"
    /\ Count(task["w1"].log, "poll") = 3 /\ Has(task["w1"].log, "hit")

C8_FailedWriteNoMutation ==
    [][\A w \in Writers :
        /\ ~Has(task[w].log, "write_failed") /\ Has(task'[w].log, "write_failed") =>
                /\ task[w].phase = "op" /\ task'[w].phase = "failed"
                /\ task'[w].log = <<"write_failed">>
                /\ device' = device /\ attr' = attr /\ thermostats' = thermostats
                /\ frame'[w] = NoFrame
        /\ task[w].phase = "op" /\ task'[w].phase \notin {"op", "wait"} =>
                Has(task'[w].log, "write_failed")
        /\ Has(task[w].log, "write_failed") =>
                task'[w] = task[w] /\ frame'[w] = NoFrame]_vars

\* a write whose request was refused
C8_Witness ==
    task["w1"].phase = "failed" /\ task["w1"].log = <<"write_failed">>

\* C9: nothing is mutated or published while the write request is awaited;
\* when it returns the snapshot gets the target value, the attributes follow,
\* the state is published and only then the first confirmation poll is sent.
C9_WriteThenMutateThenPublishThenPoll ==
    [][\A w \in Writers :
        /\ task'[w].phase = "op" => task'[w].log = <<>>
        /\ task[w].phase = "idle" /\ task'[w].phase = "op" =>
                device' = device /\ attr' = attr /\ frame'[w].method = "PUT"
        /\ task[w].phase = "op" /\ task'[w].phase = "wait" =>
                /\ device'.mode = task[w].target
                /\ attr' = update_entity_attributes(device')
                /\ task'[w].log = <<"write_ok", "mutate", "publish", "poll">>
                /\ frame'[w].rpc # "none" /\ frame'[w].method = "GET"
        /\ Has(task'[w].log, "poll") =>
                SubSeq(task'[w].log, 1, 4) = <<"write_ok", "mutate", "publish", "poll">>]_vars

\* the optimistic value is in the entity while the first poll is awaited
C9_Witness ==
    /\ task["w1"].phase = "wait" /\ Count(task["w1"].log, "poll") = 1
    /\ device.mode = task["w1"].target
    /\ thermostats[TheId].mode # task["w1"].target

\* C10: while one write awaits its confirmation, another write's resume does
\* not clear the flag and its final refresh does not replace the snapshot.
C10_NoReconcileOverPendingWrite ==
    [][\A v \in Writers, w \in Writers :
        v # w /\ InWindow(w) =>
            /\ task[v].phase = "wait" /\ task'[v].phase \in {"final", "done"} =>
                    (updates_paused => updates_paused')
            /\ task[v].phase = "final" /\ task'[v].phase = "done" =>
                    device' = device]_vars

\* ------------------------------------------------------------- the cache
\* what get_thermostats() would return now
CacheValue == Value(heap, thermostats)

\* C11: only a step that decodes a poll response changes what
\* get_thermostat(id) returns: the steps in which a reader mutates what
\* get_thermostat or get_thermostats returned to it (as an entity's optimistic
\* update does) leave it as it was.
C11_ReaderMutationLeavesCache ==
    [][polls' = polls => Value(heap', thermostats') = CacheValue]_vars

\* the reader has changed the mode of the thermostat it got, and the cache
\* still holds what the last poll decoded
C11_Witness ==
    /\ call.op = "mutate" /\ device # NoRef /\ heap[device].type = "object"
    /\ polls.any /\ CacheValue = refresh_thermostats(polls.body)
    /\ heap[device].val.id \in DOMAIN CacheValue
    /\ CacheValue[heap[device].val.id].mode # heap[device].val.mode
    /\ \A t \in UpdateCallers : frame[t].rpc = "none"

\* C12: between any two steps the cache is the empty map of the start or the
\* whole decoded body of one poll response, the one decoded last.
C12_CacheIsOnePoll ==
    CacheValue = IF polls.any THEN refresh_thermostats(polls.body) ELSE EmptyCache

\* one update() has filled the cache with two devices while another is
\* awaiting its response and the cloud has moved on
C12_Witness ==
    /\ polls.any /\ DOMAIN CacheValue = CacheDevices
    /\ frame["p1"].rpc = "url" /\ frame["w1"].rpc = "none"
    /\ remote # polls.body /\ DOMAIN remote # CacheDevices

\* -------------------------------------------------------- auth manager
\* the step in which the config flow's login() ends
LoginEnds == frame["f1"].rpc = "login_call" /\ frame'["f1"].rpc = "none"

\* the login response was a 200 carrying both tokens
LoginAccepted ==
    /\ call'.status = 200
    /\ call'.refreshToken \in RefreshTokens
    /\ call'.accessToken \in AccessTokens

\* C13: login() returns true exactly on a 200 with both tokens and then holds
\* them with authenticated true; after any other outcome it has not returned
\* true, the tokens are as before and authenticated is false.
C13_LoginOutcome ==
    [][LoginEnds =>
        /\ call'.ret = TRUE <=> LoginAccepted
        /\ LoginAccepted =>
                auth' = [authenticated |-> TRUE, refresh_token |-> call'.refreshToken,
                         access_token |-> call'.accessToken]
        /\ ~LoginAccepted =>
                /\ auth'.refresh_token = auth.refresh_token
                /\ auth'.access_token = auth.access_token
                /\ auth'.authenticated = FALSE]_vars

\* C14: login() ends by returning, whatever the endpoint answers, and returns
\* false unless the login was accepted.
C14_LoginNeverRaises ==
    [][LoginEnds =>
        /\ call'.exc = NoExc
        /\ ~LoginAccepted => call'.ret = FALSE]_vars

\* the step in which the refresh endpoint's answer reaches __refresh_token
RefreshEnds(c) == frame[c].rpc = "refresh" /\ frame'[c] # frame[c]

\* that answer was a 200 carrying an access token
RefreshAccepted(c) == stats'[c].last = 200 /\ stats'[c].got \in AccessTokens

\* C15: __refresh_token ends by returning (its caller __req goes on to the
\* retry), and when the refresh was not accepted authenticated is false.
C15_RefreshNeverRaises ==
    [][\A c \in Callers : RefreshEnds(c) =>
        /\ result'[c].kind = "pending" /\ frame'[c].rpc # "none"
        /\ ~RefreshAccepted(c) => auth'.authenticated = FALSE]_vars

\* C16: when the login that __refresh_token makes because it was entered
\* unauthenticated ends, no request goes to the refresh endpoint.
C16_LoginInsteadOfRefresh ==
    [][\A c \in Callers :
        /\ frame[c].rpc = "url" /\ frame'[c].rpc \in {"refresh_login", "refresh"} =>
                (frame'[c].rpc = "refresh_login" <=> auth.authenticated # TRUE)
        /\ frame[c].rpc = "refresh_login" /\ frame'[c] # frame[c] =>
                /\ frame'[c].rpc # "refresh"
                /\ stats'[c].refresh = stats[c].refresh]_vars

\* C17: an accepted refresh that finds the state authenticated changes the
\* access token and nothing else of the auth state.
C17_RefreshChangesAccessTokenOnly ==
    [][\A c \in Callers :
        RefreshEnds(c) /\ RefreshAccepted(c) /\ auth.authenticated = TRUE =>
            auth' = [auth EXCEPT !.access_token = stats'[c].got]]_vars

\* a refresh has replaced the access token and the retry is under way
C17_Witness ==
    /\ frame["c1"].rpc = "url" /\ ~frame["c1"].retry
    /\ stats["c1"].refresh = 1 /\ stats["c1"].got = "a2"
    /\ auth = [authenticated |-> TRUE, refresh_token |-> "r1", access_token |-> "a2"]

\* __req is entered: called, or called again as the retry
CallEnters(c) == frame[c].rpc = "none" /\ frame'[c].rpc # "none"
RetryEnters(c) == RefreshEnds(c) /\ frame'[c].rpc # "none"

\* C18: entered unauthenticated, __req sends the login and the url request
\* only once the login has ended; entered authenticated, it sends the url
\* request at once and no login.
C18_LoginBeforeRequest ==
    [][\A c \in Callers :
        /\ CallEnters(c) =>
                IF auth.authenticated = TRUE
                THEN /\ frame'[c].rpc = "url"
                     /\ stats'[c].url = 1 /\ stats'[c].login = 0
                ELSE /\ frame'[c].rpc = "login"
                     /\ stats'[c].url = 0 /\ stats'[c].login = 1
        /\ RetryEnters(c) =>
                IF auth'.authenticated = TRUE
                THEN /\ frame'[c].rpc = "url"
                     /\ stats'[c].url = stats[c].url + 1
                     /\ stats'[c].login = stats[c].login
                ELSE /\ frame'[c].rpc = "login"
                     /\ stats'[c].url = stats[c].url
                     /\ stats'[c].login = stats[c].login + 1
        /\ frame[c].rpc = "login" /\ frame'[c] # frame[c] =>
                /\ frame'[c].rpc \in {"url", "none"}
                /\ stats'[c].login = stats[c].login
                /\ stats'[c].url = stats[c].url
                                   + (IF frame'[c].rpc = "url" THEN 1 ELSE 0)]_vars

\* a call entered unauthenticated has logged in and then sent its request
C18_Witness ==
    /\ frame["c1"].rpc = "url" /\ frame["c1"].retry
    /\ stats["c1"].login = 1 /\ stats["c1"].url = 1
    /\ auth.authenticated = TRUE

\* -------------------------------------------------------- set points
\* the step in which async_set_temperature is called on the entity
SetTemperatureCalled(w) ==
    /\ task[w].phase = "idle" /\ task'[w].phase # "idle"
    /\ call'.op = "async_set_temperature"

\* the step in which set_thermostat_home_set_points is called on the API
SetPointsCalled ==
    /\ frame["c1"].rpc = "none"
    /\ call'.op = "set_thermostat_home_set_points"
    /\ call' # call \/ result'["c1"] # result["c1"] \/ frame'["c1"] # frame["c1"]

\* the step sends nothing and changes nothing of the entity
NothingDone ==
    /\ frame' = frame /\ stats' = stats /\ auth' = auth
    /\ device' = device /\ attr' = attr /\ updates_paused' = updates_paused
    /\ thermostats' = thermostats

\* C19: async_set_temperature with a temperature and no low/high value on a
\* thermostat in mode AUTO or OFF raises ValueError, sends no request and
\* leaves snapshot and pause flag as they are.
C19_SingleTemperatureNeedsHeatOrCool ==
    [][\A w \in Writers :
        /\ SetTemperatureCalled(w)
        /\ call'.temperature # NoTemp /\ call'.low = NoTemp /\ call'.high = NoTemp
        /\ device.mode \in {0, 3}
        => /\ call'.exc = "ValueError"
           /\ task'[w].phase = "failed" /\ task'[w].log = <<"ValueError">>
           /\ NothingDone]_vars

\* 20.04 degrees were asked of a thermostat in AUTO: the call has failed and
\* nothing is in flight
C19_Witness ==
    /\ call.op = "async_set_temperature" /\ call.exc = "ValueError"
    /\ call.temperature = 2004 /\ call.low = NoTemp /\ call.high = NoTemp
    /\ device.mode = 3 /\ task["w1"].phase = "failed"
    /\ \A t \in Tasks : frame[t].rpc = "none"

\* C20: async_set_temperature without any of temperature, low, high, and
\* set_thermostat_home_set_points with neither heat nor cool, raise ValueError
\* in the step of the call, before any request is sent.
C20_NoSetPointIsRejected ==
    [][/\ \A w \in Writers :
            /\ SetTemperatureCalled(w)
            /\ call'.temperature = NoTemp /\ call'.low = NoTemp /\ call'.high = NoTemp
            => /\ call'.exc = "ValueError" /\ task'[w].phase = "failed"
               /\ NothingDone
       /\ SetPointsCalled /\ call'.heat = NoTemp /\ call'.cool = NoTemp
            => /\ call'.exc = "ValueError"
               /\ result'["c1"] = Raised("ValueError", 0)
               /\ NothingDone]_vars

\* the API was called with neither set point: ValueError, nothing in flight
C20_Witness ==
    /\ call.op = "set_thermostat_home_set_points" /\ call.exc = "ValueError"
    /\ call.heat = NoTemp /\ call.cool = NoTemp
    /\ result["c1"] = Raised("ValueError", 0)
    /\ \A t \in Tasks : frame[t].rpc = "none"

\* --------------------------------------------------------------- decoding
\* the device record that was decoded, and the thermostat it gave
Decoded == call.op = "map_thermostat" /\ call.out.exc = NoExc
Record == remote[1].data
Equipment == call.out.thermostat.equipment
AirHandlers == {k \in DOMAIN Equipment : Equipment[k].name = "Air Handler"}
Furnaces == {k \in DOMAIN Equipment : Equipment[k].name = "Furnace"}
OutdoorUnits == {k \in DOMAIN Equipment : Equipment[k].type = "DaikinOutdoorUnit"}
EEVCoils == {k \in DOMAIN Equipment : Equipment[k].type = "DaikinEEVCoil"}

\* C21: the decoded thermostat's equipment map has an entry of a category iff
\* the category's unit-type field is below 255; an outdoor unit that is there
\* has exactly one entry, keyed {model}-{serial}
C21_EquipmentPresence ==
    Decoded =>
        /\ (AirHandlers # {}) <=> (Record.ctAHUnitType < 255)
        /\ (Furnaces # {}) <=> (Record.ctIFCUnitType < 255)
        /\ (OutdoorUnits # {}) <=> (Record.ctOutdoorUnitType < 255)
        /\ (EEVCoils # {}) <=> (Record.ctCoilUnitType < 255)
        /\ Record.ctOutdoorUnitType < 255 =>
                /\ Cardinality(OutdoorUnits) = 1
                /\ \A k \in OutdoorUnits :
                        k = eid(Equipment[k].model, Equipment[k].serial)

\* the record's enum codes are members of their enums
EnumsMapped ==
    /\ enum(Record.mode, DaikinThermostatMode) = NoExc
    /\ enum(Record.equipmentStatus, DaikinThermostatStatus) = NoExc
    /\ Record.ctOutdoorUnitType < 255 => outdoor_enums(Record) = NoExc

IndoorUnits == AirHandlers \cup Furnaces

\* C24: a record with an indoor unit (air handler or furnace) that lacks the
\* optional cool-demand fields decodes, and the unit's cool-demand fields are
\* None
C24_AbsentCoolDemandDecodes ==
    /\ call.op = "map_thermostat"
    /\ EnumsMapped
    /\ Record.ctAHUnitType < 255 \/ Record.ctIFCUnitType < 255
    /\ Record.ctIFCCoolRequestedDemandPercent = NoKey
    => /\ call.out.exc = NoExc
       /\ \A k \in IndoorUnits :
            /\ Equipment[k].cool_demand_requested_percent = NoneInt
            /\ k \in AirHandlers => Equipment[k].cool_demand_current_percent = NoneInt

\* a code that is in the record and is no member of the enum
Unmapped(code, members) == code # NoKey /\ code \notin members

UnmappedOutdoorCode ==
    \/ Unmapped(Record.ctReversingValve, DaikinOutdoorUnitReversingValveStatus)
    \/ \E c \in {Record.ctCrankCaseHeaterOnOff, Record.ctDrainPanHeaterOnOff,
                  Record.ctPreHeatOnOff} : Unmapped(c, DaikinOutdoorUnitHeaterStatus)

UnmappedTopCode ==
    \/ Unmapped(Record.mode, DaikinThermostatMode)
    \/ Unmapped(Record.equipmentStatus, DaikinThermostatStatus)

\* the decoding failed with an error that is no DaikinServiceException and
\* gave no thermostat
DecodeFailed ==
    /\ call.out.exc \in {"ValueError", "KeyError"}
    /\ call.out.thermostat = NoThermostat

\* C25 as stated: a record whose mode, equipmentStatus, reversing-valve or
\* heater-status code is no member of its enum fails to decode, with an error
\* other than DaikinServiceException
C25_UnmappedCodeFails ==
    call.op = "map_thermostat" /\ (UnmappedTopCode \/ UnmappedOutdoorCode)
        => DecodeFailed

\* C25, amended: the same for the mode and equipmentStatus codes of every
\* record and for the reversing-valve and heater-status codes of a record
\* whose outdoor unit is present (ctOutdoorUnitType < 255); the codes of an
\* absent outdoor unit are not read
C25_UnmappedCodeOfPresentUnitFails ==
    /\ call.op = "map_thermostat"
    /\ UnmappedTopCode \/ (Record.ctOutdoorUnitType < 255 /\ UnmappedOutdoorCode)
    => DecodeFailed

C25_Witness ==
    /\ call.op = "map_thermostat"
    /\ ~UnmappedTopCode /\ Record.mode # NoKey
    /\ Record.ctIFCUnitType = 255
    /\ Record.ctOutdoorUnitType < 255
    /\ Record.ctReversingValve = 0 /\ Record.ctCrankCaseHeaterOnOff = 7
    /\ call.out.exc = "ValueError"

\* ---------------------------------------------------------------- polling
\* a device record that has every field the decoder reads, with mapped codes
WellFormed(r) ==
    /\ r.complete
    /\ r.data.mode \in DaikinThermostatMode
    /\ r.data.equipmentStatus \in DaikinThermostatStatus
    /\ r.data.ctIFCUnitType < 255 =>
            NoKey \notin {r.data.ctIFCCoolRequestedDemandPercent,
                          r.data.ctIFCCurrentCoolActualStatus}
    /\ r.data.ctOutdoorUnitType < 255 =>
            /\ r.data.ctReversingValve \in DaikinOutdoorUnitReversingValveStatus
            /\ {r.data.ctCrankCaseHeaterOnOff, r.data.ctDrainPanHeaterOnOff,
                r.data.ctPreHeatOnOff} \subseteq DaikinOutdoorUnitHeaterStatus

\* in this step the device list (the cloud's, as it is now) reaches the
\* update() of caller c
PollAnswered(c) ==
    /\ call.op = "update"
    /\ frame[c].rpc = "url" /\ frame[c].method = "GET"
    /\ frame'[c].rpc = "none"
    /\ stats'[c].last = 200

\* C22: when a record of a poll response is malformed, the well-formed
\* records of the response are decoded and cached and the poll does not fail
C22_BadRecordIsSkipped ==
    [][\A c \in Callers :
        /\ PollAnswered(c)
        /\ \E k \in DOMAIN remote : ~WellFormed(remote[k])
        /\ \E k \in DOMAIN remote : WellFormed(remote[k])
        => /\ result'[c].kind = "return"
           /\ \A k \in DOMAIN remote :
                WellFormed(remote[k]) =>
                    /\ remote[k].id \in DOMAIN thermostats'
                    /\ thermostats'[remote[k].id]
                            = map_thermostat_fields(remote[k]).thermostat]_vars

\* C23: within one update() a request to the locations endpoint goes out
\* before the one for the devices, and the cache is swapped after both
C23_LocationsBeforeThermostats ==
    call.op = "update" =>
        LET q == call.requests
            at(url) == {k \in DOMAIN q : q[k] = url}
        IN /\ \A k \in at(DAIKIN_API_URL_DEVICE_DATA) :
                \E j \in at(DAIKIN_API_URL_LOCATIONS) : j < k
           /\ call.swapped => /\ at(DAIKIN_API_URL_LOCATIONS) # {}
                              /\ at(DAIKIN_API_URL_DEVICE_DATA) # {}

\* C30: the cache changes only in a step in which a poll completes
\* successfully (and then to the decoded response); writes of the API object,
\* mutations of a snapshot and failing polls leave it as it is
C30_CacheChangesOnlyOnGoodPoll ==
    [][thermostats' # thermostats =>
        \E c \in Callers :
            /\ PollAnswered(c)
            /\ result'[c].kind = "return"
            /\ \A k \in DOMAIN remote : WellFormed(remote[k])
            /\ DOMAIN thermostats' = {remote[k].id : k \in DOMAIN remote}]_vars

\* a poll has failed on a malformed record and the cache still holds the
\* devices of an earlier poll, next to a mutated snapshot
C30_Witness ==
    /\ result["c1"].kind \in {"ValueError", "KeyError", "ValidationError"}
    /\ call.op = "update"
    /\ \E k \in DOMAIN remote : ~WellFormed(remote[k])
    /\ DOMAIN thermostats = {"t1", "t2"}
    /\ device # NoThermostat /\ device.id = "t1"
    /\ device.mode # thermostats["t1"].mode

\* ------------------------------------------------------------ temperatures
\* c (hundredths) rounded to one decimal: the tenth nearest to it
Nearest(c) ==
    CHOOSE t \in ((c \div 10) - 1)..((c \div 10) + 1) : 10 * t - c < 5 /\ c - 10 * t < 5

\* C26: two Temperatures are equal iff their Celsius values rounded to one
\* decimal are equal, from_celsius(c).celsius is c rounded to one decimal, and
\* the confirmation predicates on set points are this equality
C26_EqualIffRoundedEqual ==
    call.op = "compare" /\ call.b # NoTemp =>
        /\ call.eq <=> (Nearest(call.a) = Nearest(call.b))
        /\ call.celsius = Nearest(call.a)
        /\ call.hit = call.eq
        /\ call.hit_both = call.eq

\* 20.04 and 19.96 are different floats and equal Temperatures
C26_Witness ==
    /\ call.op = "compare"
    /\ call.a = 2004 /\ call.b = 1996
    /\ call.eq /\ call.celsius = 200

\* ------------------------------------------------------ overlapping polls
UpdatesOver == \A t \in UpdateCallers : frame[t].rpc = "none"

\* C27: once the update() calls have completed the cache holds the decoded
\* response of the call that was processed last, also when the cloud produced
\* that response before the other one
C27_LastProcessedWins ==
    UpdatesOver /\ polls.any => thermostats = refresh_thermostats(polls.body)

\* both calls are over; the response processed last was produced before one
\* processed earlier, and the cache holds a state the cloud has left
C27_Witness ==
    /\ UpdatesOver /\ polls.any
    /\ polls.seq < polls.newest
    /\ thermostats = refresh_thermostats(polls.body)
    /\ thermostats # refresh_thermostats(remote)

\* ------------------------------------------------------ confirmation loop
InLoop(w) == task[w].phase \in {"wait", "sleep"}

\* C28: a confirmation loop that has started ends only with a poll that
\* satisfies the check or with a poll that misses once the deadline has
\* elapsed
C28_LoopEndsOnHitOrDeadline ==
    [][\A w \in Writers :
        InLoop(w) /\ ~InLoop(w)' =>
            LET how == task'[w].log[Len(task[w].log) + 1] IN
            \/ /\ how = "hit"
               /\ check(get_thermostat(thermostats', TheId), task[w].target)
            \/ /\ how = "giveup"
               /\ task[w].elapsed >= max_time]_vars

\* ------------------------------------------------- termination of __req
\* C29: a __req call sends at most 2 requests to its url, 1 to the refresh
\* endpoint and 3 to the login endpoint, whatever the answers, and it ends
\* (returns or raises) when every request is answered
C29_ReqTerminatesBounded ==
    /\ [](\A c \in Callers :
            stats[c].url <= 2 /\ stats[c].refresh <= 1 /\ stats[c].login <= 3)
    /\ \A c \in Callers : (frame[c].rpc # "none") ~> Finished(c)

\* a call that has sent every request it can send: three logins, one refresh
\* and the url twice
C29_Witness ==
    /\ Finished("c1")
    /\ stats["c1"].url = 2 /\ stats["c1"].refresh = 1 /\ stats["c1"].login = 3
    /\ result["c1"].kind = "return"

\* ------------------------------------------------- the auth state and the bearer
\* C35: in every reachable auth state, authenticated = true implies that
\* access_token and refresh_token are both non-null
C35_AuthenticatedHasTokens ==
    auth.authenticated = TRUE =>
        auth.access_token # Null /\ auth.refresh_token # Null

\* the step in which __req sends the request to its url
SendsUrl(c) == frame[c].rpc # "url" /\ frame'[c].rpc = "url"

\* C36: no request goes to a data endpoint while authenticated is false or
\* access_token is null; after a failed login the request is not sent
C36_NoRequestWithoutToken ==
    [][\A c \in Callers :
        SendsUrl(c) => auth'.authenticated = TRUE /\ auth'.access_token # Null]_vars

\* ------------------------------------------------- equipment ids
\* the equipment categories the record says are there
CategoriesPresent ==
    {u \in {"ctAHUnitType", "ctIFCUnitType", "ctOutdoorUnitType", "ctCoilUnitType"} :
        Record[u] < 255}

\* C31: a decoded thermostat carries its record's id, the key under which the
\* poll caches it; each of its equipment entries is stored under the entry's
\* own id, which is the trimmed model and the trimmed serial joined by "-",
\* and carries the thermostat's id; there are as many entries as categories
\* present
C31_EquipmentKeys ==
    Decoded =>
        /\ call.out.thermostat.id = remote[1].id
        /\ \A k \in DOMAIN Equipment :
                /\ Equipment[k].id = k
                /\ k = eid(strip(Equipment[k].model), strip(Equipment[k].serial))
                /\ Equipment[k].thermostat_id = call.out.thermostat.id
        /\ Cardinality(DOMAIN Equipment) = Cardinality(CategoriesPresent)

\* the same without the coil's key and the count: what __map_equipment keeps
EquipmentOwned ==
    Decoded =>
        /\ call.out.thermostat.id = remote[1].id
        /\ \A k \in DOMAIN Equipment :
                /\ Equipment[k].id = k
                /\ k \notin EEVCoils =>
                        k = eid(strip(Equipment[k].model), strip(Equipment[k].serial))
                /\ k \in EEVCoils => k = "eevcoil-" \o strip(Equipment[k].serial)
                /\ Equipment[k].thermostat_id = call.out.thermostat.id
        /\ Cardinality(DOMAIN Equipment) <= Cardinality(CategoriesPresent)

\* after a poll that succeeded, every cache entry is keyed by its own id
CacheKeyedById ==
    \A i \in DOMAIN thermostats : thermostats[i].id = i

\* ------------------------------------------------- capabilities
\* what a sequence holds
Offered(seq) == {seq[i] : i \in DOMAIN seq}

\* the capabilities the device record reports
Reported ==
    {c \in DaikinThermostatCapability : truthy(remote[1].data[CapabilityFlag[c]])}

\* C33: a decoded thermostat has a capability iff the record's flag of it is
\* truthy, so the climate entity offers HEAT, COOL, HEAT_COOL and the
\* emergency-heat preset only for capabilities the device reports
C33_CapabilitiesFollowFlags ==
    /\ call.op = "map_capabilities" /\ call.exc = NoExc =>
            call.capabilities = Reported
    /\ kind = "climate" =>
        /\ device.capabilities = Reported
        /\ "heat" \in Offered(attr.hvac_modes) => "HEAT" \in Reported
        /\ "cool" \in Offered(attr.hvac_modes) => "COOL" \in Reported
        /\ "heat_cool" \in Offered(attr.hvac_modes) => {"HEAT", "COOL"} \subseteq Reported
        /\ "emergency_heat" \in Offered(attr.preset_modes) =>
                "EMERGENCY_HEAT" \in Reported

\* ------------------------------------------------- the body of a set-point write
\* the body holds hspHome iff heat was supplied, cspHome iff cool was, and
\* schedOverride = 1 iff override_schedule is true
BodyFollows(c) ==
    /\ (c.body.hspHome # NoTemp) <=> (c.heat # NoTemp)
    /\ (c.body.cspHome # NoTemp) <=> (c.cool # NoTemp)
    /\ c.heat # NoTemp => c.body.hspHome = celsius(c.heat)
    /\ c.cool # NoTemp => c.body.cspHome = celsius(c.cool)
    /\ (c.body.schedOverride = 1) <=> c.override
    /\ DOMAIN c.body = {"hspHome", "cspHome", "schedOverride"}

C32_WitnessSingle ==
    /\ call.op = "async_set_temperature" /\ call.exc = NoExc
    /\ call.temperature = 2150 /\ call.low = NoTemp /\ call.high = NoTemp
    /\ device.schedule_enabled /\ device.mode = 2
    /\ call.body = [hspHome |-> NoTemp, cspHome |-> 215, schedOverride |-> 0]

\* ------------------------------------------------- one-sided range writes
\* async_set_temperature was called with only one of target_temp_low and
\* target_temp_high
OneSided ==
    /\ call.op = "async_set_temperature" /\ call.exc = NoExc
    /\ (call.low # NoTemp) # (call.high # NoTemp)

\* the cache, as a poll left it, reflects the set point that was supplied
Reflects(cache, target) ==
    /\ target.heat # NoTemp => cache[TheId].set_point_heat = target.heat
    /\ target.cool # NoTemp => cache[TheId].set_point_cool = target.cool

\* how the confirmation poll that returned in this step was judged
Judged(w) == task'[w].log[Len(task[w].log) + 1]

\* C34: after async_set_temperature with only one of target_temp_low and
\* target_temp_high, the confirmation poll that shows the supplied set point
\* satisfies the predicate (the other set point is not compared) and ends the
\* loop, before the deadline
C34_OneSidedRangeConfirms ==
    [][\A w \in Writers :
        /\ OneSided
        /\ task[w].phase = "wait" /\ Len(task'[w].log) > Len(task[w].log)
        /\ Judged(w) \in {"hit", "miss", "giveup"}
        /\ Reflects(thermostats', task[w].target)
        => Judged(w) = "hit"]_vars

\* what the code does instead: a one-sided range write is never confirmed
OneSidedNeverConfirms ==
    OneSided => \A w \in Writers : \A i \in DOMAIN task[w].log : task[w].log[i] # "hit"
====
